---- MODULE Spec2Model ----
(***************************************************************************)
(* Ember heat engine: HeatManager (record store, increase/decrease,        *)
(* normalization), MetricsManager (usage events, composite score) and      *)
(* DecayManager (periodic decay, catch-up at start) of                     *)
(* src/unnamed/part_004, with the plugin lifecycle of src/unnamed/part_006.*)
(*                                                                         *)
(* Numbers.  The code computes on IEEE doubles.  Here a heat value is an   *)
(* integer number of tenths of a heat point (HeatScale units per point),   *)
(* a timestamp is an integer number of milliseconds, and a quotient is     *)
(* rounded down.  Math.log10 and Math.exp are computed in fixed point by   *)
(* Log10Centi and ExpNegMilli below.                                       *)
(***************************************************************************)
EXTENDS Integers, FiniteSets, Sequences, TLC

\* ------------------------------------------------------------------ bounds

\* Minutes of wall-clock time that pass in a behaviour of the engine.
MaxMinutes == 1
\* Minutes of wall-clock time that pass in a behaviour of the scheduler.
MaxSchedMinutes == 3
\* Minutes of wall-clock time that pass in a behaviour of succession tracking.
MaxSuccMinutes == 6
\* Usage events and store operations in one behaviour.
MaxOps == 3
\* Heating events in a behaviour of the scheduler's specification.
MaxHeatOps == 1
\* start / stop / updateSettings / unload / load calls in one behaviour.
MaxSchedOps == 3
\* Timer ids handed out by window.setInterval in one behaviour.
MaxTimers == 3
\* Largest raw heat (in points) given to normalizeHeat on its own.
MaxRaw == 160
\* Largest gap (in tenths of a point) between the two raw values compared.
MaxDelta == 20
\* The most decay cycles a timer of interval 0 is followed through.
MaxCycles == 2
\* The most edits a file has had before it is first opened.
MaxEdits == 10

\* The most mutations of the store the debounced persistence is followed through.
MaxMutations == 2
\* The most save timers and performSave calls on their way at one time.
MaxSaves == 3

\* The most snapshots createSnapshot is followed through.
MaxSnapshots == 2

\* The largest limit getHottestFiles is asked for.
MaxLimit == 4

\* ------------------------------------------------------------- arithmetic

\* Units per heat point: heatScore 72.5 is held as 725.
HeatScale == 10
\* sessionStart: number | null
NULL == -1
\* decayIntervalId: number | null
NoTimer == 0
\* One step of the model's clock: a minute, in milliseconds.
StepMs == 60 * 1000

Min(a, b) == IF a <= b THEN a ELSE b
Max(a, b) == IF a >= b THEN a ELSE b

\* A setting given in heat points, in heat units.
Fx(points) == points * HeatScale

\* Pow10Table[k + 1] = ceiling(1000 * 10^(k/100)), k = 0..100.
Pow10Table ==
   << 1000, 1024, 1048, 1072, 1097, 1123, 1149, 1175, 1203, 1231,
      1259, 1289, 1319, 1349, 1381, 1413, 1446, 1480, 1514, 1549,
      1585, 1622, 1660, 1699, 1738, 1779, 1820, 1863, 1906, 1950,
      1996, 2042, 2090, 2138, 2188, 2239, 2291, 2345, 2399, 2455,
      2512, 2571, 2631, 2692, 2755, 2819, 2885, 2952, 3020, 3091,
      3163, 3236, 3312, 3389, 3468, 3549, 3631, 3716, 3802, 3891,
      3982, 4074, 4169, 4266, 4366, 4467, 4571, 4678, 4787, 4898,
      5012, 5129, 5249, 5371, 5496, 5624, 5755, 5889, 6026, 6166,
      6310, 6457, 6607, 6761, 6919, 7080, 7245, 7414, 7586, 7763,
      7944, 8129, 8318, 8512, 8710, 8913, 9121, 9333, 9550, 9773,
      10000 >>

\* The decimal exponent of num/den >= 1: the largest e with den * 10^e <= num.
RECURSIVE Exponent10(_, _)
Exponent10(num, den) ==
   IF den * 10 <= num THEN 1 + Exponent10(num, den * 10) ELSE 0

RECURSIVE Power10(_)
Power10(e) == IF e <= 0 THEN 1 ELSE 10 * Power10(e - 1)

\* Math.log10(num/den) for num >= den > 0, in hundredths, rounded down (the
\* mantissa is cut to three decimals before the table is searched; the
\* division is arranged so that no intermediate value leaves 32 bits).
Log10Centi(num, den) ==
   LET e == Exponent10(num, den)
       scaled == den * Power10(e)
       mant == IF scaled % 1000 = 0
               THEN num \div (scaled \div 1000)
               ELSE (num * 1000) \div scaled
       k == CHOOSE i \in 0..99 :
               /\ Pow10Table[i + 1] <= mant
               /\ Pow10Table[i + 2] > mant
   IN 100 * e + k

\* Math.exp(-x/1000) for x >= 0, in thousandths: above x = 1000 the argument is
\* halved and the result squared; below, the Taylor series of e^(-x) is summed
\* to twelve terms on a 10^5 scale.
RECURSIVE ExpSeries(_, _, _, _)
ExpSeries(x, term, k, acc) ==
   IF k > 12 \/ term = 0 THEN acc
   ELSE LET next == (term * x) \div (1000 * k)
        IN ExpSeries(x, next, k + 1,
                     IF k % 2 = 1 THEN acc - next ELSE acc + next)

RECURSIVE ExpNegMilliX(_)
ExpNegMilliX(x) ==
   IF x > 1000
   THEN LET h == ExpNegMilliX(x \div 2) IN (h * h) \div 1000
   ELSE Max(0, ExpSeries(x, 100000, 1, 100000) \div 100)

\* Math.exp(-num/den) for num >= 0, den > 0, in thousandths.
ExpNegMilli(num, den) == ExpNegMilliX((num * 1000) \div den)

\* ------------------------------------------------------------------ state

\* Tracked files.
Paths == {"a", "b"}
NoFile == "null"
\* No heat level asked for yet.
NoLevel == "none"
\* currentStateBackup = null
NoBackup == [present |-> FALSE, data |-> <<>>]
\* Nothing was written to the data file since it was loaded.
NoWrite == [written |-> FALSE, mutations |-> 0, files |-> <<>>]
\* getHottestFiles has not been called.
NotAsked == [asked |-> FALSE, limit |-> 0, files |-> <<>>]
\* applyImportStrategy has not been called.
NoStats == [entries |-> 0, imported |-> 0, updated |-> 0, skipped |-> 0]
\* No replacement of the store is under way.
NoBulk == [phase |-> "idle", kind |-> "none", incoming |-> <<>>, remaining |-> {}]

VARIABLES
   heatMap,            \* HeatManager.heatMap: path -> HeatData
   lastAccessedFile,   \* MetricsManager.lastAccessedFile
   settings,           \* the EmberSettings object the managers share
   now,                \* Date.now()
   loaded,             \* the plugin is loaded (between onload and onunload)
   decayIntervalId,    \* DecayManager.decayIntervalId (NoTimer: null)
   lastDecayTime,      \* DecayManager.lastDecayTime
   timers,             \* the live window.setInterval timers: id -> [due, interval]
   nextTimerId,        \* the id the next setInterval returns
   lastOp,             \* history: the operation the last step ran
   cyclesApplied,      \* history: performDecay calls made by this DecayManager
   startedAt,          \* history: time of this DecayManager's first start()
   startedInterval,    \* history: decayInterval at that start()
   unloadedAt,         \* history: time of the last onunload (NULL: none yet)
   ops,                \* usage events and store operations so far
   schedOps,           \* scheduler and lifecycle calls so far
   rawA, rawB,         \* the raw heats handed to normalizeHeat on its own
   outA, outB,         \* and its results (NULL: not computed yet)
   hung,               \* a call is stuck in a loop that never exits
   isDirty,            \* DataStore.isDirty
   saveTimeout,        \* DataStore.saveTimeout is set (a debounced save waits)
   saving,             \* a save(true) has started performSave
   saveFailed,         \* history: a performSave has failed
   levelA, levelB,     \* getHeatLevel of the two raw heats (NoLevel: not asked)
   currentStateBackup, \* ArchivalManager.currentStateBackup
   bulk,               \* the replacement of the store that is under way
   inFlight,           \* the performSave calls that have not settled yet
   disk,               \* what the last saveData wrote to the data file
   mutations,          \* history: store mutations that were followed by save()
   snapshots,          \* ArchivalManager.snapshots
   hottest,            \* the array the last getHottestFiles returned
   importStats         \* the counts the last applyImportStrategy returned

engineVars == <<heatMap, lastAccessedFile>>
schedVars == <<decayIntervalId, lastDecayTime, timers, nextTimerId,
               cyclesApplied, startedAt, startedInterval>>
normVars == <<rawA, rawB, outA, outB>>
dataVars == <<isDirty, saveTimeout, saving>>
restVars == <<saveFailed, levelA, levelB, currentStateBackup, bulk>>
auxVars == <<inFlight, disk, mutations, snapshots, hottest, importStats>>
vars == <<heatMap, lastAccessedFile, settings, now, loaded, decayIntervalId,
          lastDecayTime, timers, nextTimerId, lastOp, cyclesApplied, startedAt,
          startedInterval, unloadedAt, ops, schedOps, rawA, rawB, outA, outB,
          hung, isDirty, saveTimeout, saving, saveFailed, levelA, levelB,
          currentStateBackup, bulk, inFlight, disk, mutations, snapshots,
          hottest, importStats>>

\* DEFAULT_SETTINGS, with the settings the model varies left open
\* (differentialDecay stays at its default, true).
DefaultSettings(interval, rate, boost, pause, catchUp) ==
   [ metricWeights |->
        [frequency |-> 30, recency |-> 40, succession |-> 10,
         duration |-> 15, edits |-> 5],
     heatIncrements |->
        [fileOpen |-> 5, fileEdit |-> 10, quickReturn |-> 3,
         quickReturnWindow |-> 5 * 60 * 1000],
     manualBoostValue |-> boost,
     decayInterval |-> interval,
     decayRate |-> rate,
     differentialDecay |-> TRUE,
     differentialMultiplier |-> 2,
     pauseDecayForFavorites |-> pause,
     calculateDecayWhileClosed |-> catchUp ]

\* ------------------------------------------------------------ HeatManager

\* normalizeHeat without the Math.min(100, ...) of its soft cap.
NormalizeHeatUncapped(heat) ==
   IF heat <= 0 THEN 0
   ELSE IF heat >= Fx(100)
        THEN Fx(90) + (Log10Centi(heat - Fx(100) + Fx(1), HeatScale)
                         * 10 * HeatScale) \div 100
        ELSE heat

\* normalizeHeat with the soft cap starting above 100 instead of at 100.
NormalizeHeatLateCap(heat) ==
   IF heat <= 0 THEN 0
   ELSE IF heat > Fx(100)
        THEN Min(Fx(100),
                 Fx(90) + (Log10Centi(heat - Fx(100) + Fx(1), HeatScale)
                             * 10 * HeatScale) \div 100)
        ELSE heat

\* HeatManager.normalizeHeat
NormalizeHeat(heat) ==
   IF heat <= 0 THEN 0
   ELSE IF heat >= Fx(100)
        THEN Min(Fx(100),
                 Fx(90) + (Log10Centi(heat - Fx(100) + Fx(1), HeatScale)
                             * 10 * HeatScale) \div 100)
        ELSE heat

\* getHeatLevel with the hot band starting at 65 instead of 60.
GetHeatLevelHotFrom65(heatScore) ==
   IF heatScore >= Fx(90) THEN "blazing"
   ELSE IF heatScore >= Fx(75) THEN "critical"
   ELSE IF heatScore >= Fx(65) THEN "hot"
   ELSE IF heatScore >= Fx(40) THEN "warm"
   ELSE IF heatScore >= Fx(20) THEN "cool"
   ELSE "cold"

\* HeatManager.getHeatLevel
GetHeatLevel(heatScore) ==
   IF heatScore >= Fx(90) THEN "blazing"
   ELSE IF heatScore >= Fx(75) THEN "critical"
   ELSE IF heatScore >= Fx(60) THEN "hot"
   ELSE IF heatScore >= Fx(40) THEN "warm"
   ELSE IF heatScore >= Fx(20) THEN "cool"
   ELSE "cold"

\* Map.get(key) of a key that is not there.
Undefined == [undefined |-> TRUE]

\* HeatManager.getHeatData
GetHeatData(hm, filePath) ==
   IF filePath \in DOMAIN hm THEN hm[filePath] ELSE Undefined

\* getOrCreateHeatData's initial record with the creating access counted.
InitialHeatDataCounted(filePath, t) ==
   [ path |-> filePath,
     heatScore |-> 0,
     metrics |->
        [accessCount |-> 1, lastAccessed |-> t, successionCount |-> 0,
         successionTimestamp |-> 0, totalDuration |-> 0, sessionStart |-> NULL,
         editCount |-> 0, lastEdited |-> 0, isFavorite |-> FALSE,
         favoriteBoost |-> 0],
     firstTracked |-> t,
     lastUpdated |-> t ]

\* The record getOrCreateHeatData makes for an untracked path.
InitialHeatData(filePath, t) ==
   [ path |-> filePath,
     heatScore |-> 0,
     metrics |->
        [accessCount |-> 0, lastAccessed |-> t, successionCount |-> 0,
         successionTimestamp |-> 0, totalDuration |-> 0, sessionStart |-> NULL,
         editCount |-> 0, lastEdited |-> 0, isFavorite |-> FALSE,
         favoriteBoost |-> 0],
     firstTracked |-> t,
     lastUpdated |-> t ]

\* Map.set(key, value)
MapSet(hm, key, value) ==
   [k \in DOMAIN hm \cup {key} |-> IF k = key THEN value ELSE hm[k]]

\* Map.delete(key)
MapDelete(hm, key) == [k \in DOMAIN hm \ {key} |-> hm[k]]

\* HeatManager.getOrCreateHeatData: the store with filePath tracked.
GetOrCreateHeatData(hm, filePath, t) ==
   IF filePath \in DOMAIN hm THEN hm
   ELSE MapSet(hm, filePath, InitialHeatData(filePath, t))

\* HeatManager.increaseHeat from its "Add base heat amount" on.  updated is the
\* store after getOrCreateHeatData and the updateMetrics callback, which
\* mutates the record in place and may itself call increaseHeat.
IncreaseHeatFrom(updated, filePath, amount, t) ==
   LET heatData == updated[filePath]
       added == heatData.heatScore + amount
       boosted == IF heatData.metrics.isFavorite
                  THEN added + heatData.metrics.favoriteBoost
                  ELSE added
   IN [updated EXCEPT ![filePath].heatScore = NormalizeHeat(boosted),
                      ![filePath].lastUpdated = t]

\* HeatManager.increaseHeat called without an updateMetrics callback.
IncreaseHeat(hm, filePath, amount, t) ==
   IncreaseHeatFrom(GetOrCreateHeatData(hm, filePath, t), filePath, amount, t)

\* decreaseHeat without the Math.max(0, ...) of its last assignment.
DecreaseHeatUnfloored(hm, filePath, percentage, t) ==
   IF filePath \notin DOMAIN hm THEN hm
   ELSE LET heatData == hm[filePath] IN
        IF heatData.metrics.isFavorite /\ settings.pauseDecayForFavorites
        THEN hm
        ELSE LET decayAmount == (heatData.heatScore * percentage) \div 100
                 finalDecayAmount ==
                    IF settings.differentialDecay /\ heatData.heatScore > Fx(70)
                    THEN decayAmount * settings.differentialMultiplier
                    ELSE decayAmount
             IN [hm EXCEPT
                   ![filePath].heatScore = heatData.heatScore - finalDecayAmount,
                   ![filePath].lastUpdated = t]

\* decreaseHeat without its early return for paused favorites.
DecreaseHeatIgnoringPause(hm, filePath, percentage, t) ==
   IF filePath \notin DOMAIN hm THEN hm
   ELSE LET heatData == hm[filePath]
            decayAmount == (heatData.heatScore * percentage) \div 100
            finalDecayAmount ==
               IF settings.differentialDecay /\ heatData.heatScore > Fx(70)
               THEN decayAmount * settings.differentialMultiplier
               ELSE decayAmount
        IN [hm EXCEPT
              ![filePath].heatScore =
                 Max(0, heatData.heatScore - finalDecayAmount),
              ![filePath].lastUpdated = t]

\* HeatManager.decreaseHeat
DecreaseHeat(hm, filePath, percentage, t) ==
   IF filePath \notin DOMAIN hm THEN hm
   ELSE LET heatData == hm[filePath] IN
        IF heatData.metrics.isFavorite /\ settings.pauseDecayForFavorites
        THEN hm
        ELSE LET decayAmount == (heatData.heatScore * percentage) \div 100
                 finalDecayAmount ==
                    IF settings.differentialDecay /\ heatData.heatScore > Fx(70)
                    THEN decayAmount * settings.differentialMultiplier
                    ELSE decayAmount
             IN [hm EXCEPT
                   ![filePath].heatScore =
                      Max(0, heatData.heatScore - finalDecayAmount),
                   ![filePath].lastUpdated = t]

\* setFavorite storing the boosted score without normalizeHeat.
SetFavoriteStoreUnnormalized(hm, filePath, isFavorite, t) ==
   LET created == GetOrCreateHeatData(hm, filePath, t)
       heatData == created[filePath]
   IN [created EXCEPT
         ![filePath].metrics.isFavorite = isFavorite,
         ![filePath].metrics.favoriteBoost =
            IF isFavorite THEN Fx(settings.manualBoostValue) ELSE 0,
         ![filePath].heatScore =
            IF isFavorite
            THEN heatData.heatScore + Fx(settings.manualBoostValue)
            ELSE heatData.heatScore,
         ![filePath].lastUpdated = t]

\* setFavorite leaving favoriteBoost as it was when unfavoriting.
SetFavoriteStoreKeepsBoost(hm, filePath, isFavorite, t) ==
   LET created == GetOrCreateHeatData(hm, filePath, t)
       heatData == created[filePath]
   IN [created EXCEPT
         ![filePath].metrics.isFavorite = isFavorite,
         ![filePath].metrics.favoriteBoost =
            IF isFavorite THEN Fx(settings.manualBoostValue) ELSE @,
         ![filePath].heatScore =
            IF isFavorite
            THEN NormalizeHeat(heatData.heatScore + Fx(settings.manualBoostValue))
            ELSE heatData.heatScore,
         ![filePath].lastUpdated = t]

\* HeatManager.setFavorite
SetFavoriteStore(hm, filePath, isFavorite, t) ==
   LET created == GetOrCreateHeatData(hm, filePath, t)
       heatData == created[filePath]
   IN [created EXCEPT
         ![filePath].metrics.isFavorite = isFavorite,
         ![filePath].metrics.favoriteBoost =
            IF isFavorite THEN Fx(settings.manualBoostValue) ELSE 0,
         ![filePath].heatScore =
            IF isFavorite
            THEN NormalizeHeat(heatData.heatScore + Fx(settings.manualBoostValue))
            ELSE heatData.heatScore,
         ![filePath].lastUpdated = t]

\* resetFileHeat that also takes the favorite status away.
ResetFileHeatStoreUnfavoriting(hm, filePath, t) ==
   IF filePath \notin DOMAIN hm THEN hm
   ELSE [hm EXCEPT
           ![filePath].heatScore = 0,
           ![filePath].metrics.accessCount = 0,
           ![filePath].metrics.editCount = 0,
           ![filePath].metrics.totalDuration = 0,
           ![filePath].metrics.successionCount = 0,
           ![filePath].metrics.isFavorite = FALSE,
           ![filePath].metrics.favoriteBoost = 0,
           ![filePath].lastUpdated = t]

\* resetFileHeat dropping the record instead of zeroing it.
ResetFileHeatStoreDeleting(hm, filePath, t) == MapDelete(hm, filePath)

\* HeatManager.resetFileHeat
ResetFileHeatStore(hm, filePath, t) ==
   IF filePath \notin DOMAIN hm THEN hm
   ELSE [hm EXCEPT
           ![filePath].heatScore = 0,
           ![filePath].metrics.accessCount = 0,
           ![filePath].metrics.editCount = 0,
           ![filePath].metrics.totalDuration = 0,
           ![filePath].metrics.successionCount = 0,
           ![filePath].metrics.favoriteBoost =
              IF ~hm[filePath].metrics.isFavorite THEN 0 ELSE @,
           ![filePath].lastUpdated = t]

\* HeatManager.removeFile
RemoveFileStore(hm, filePath) == MapDelete(hm, filePath)

\* Array.from(this.heatMap.values()).sort((a, b) => b.heatScore - a.heatScore),
\* as the orders of the keys it can give: by heatScore, highest first.  Records
\* of equal score keep the map's insertion order, which the store does not
\* record: any order of them is allowed.
SortedByHeat(hm) ==
   {order \in [1..Cardinality(DOMAIN hm) -> DOMAIN hm] :
      \A i \in DOMAIN order, j \in DOMAIN order :
         i < j => /\ order[i] # order[j]
                  /\ hm[order[i]].heatScore >= hm[order[j]].heatScore}

\* HeatManager.getHottestFiles(limit), for the order the sort gave:
\* limit ? sorted.slice(0, limit) : sorted
GetHottestFiles(hm, order, limit) ==
   LET sorted == [i \in 1..Len(order) |-> hm[order[i]]]
   IN IF limit # 0 THEN SubSeq(sorted, 1, Min(limit, Len(sorted))) ELSE sorted

\* HeatManager.clearAllData and HeatManager.clear: heatMap.clear()
ClearAllData(hm) == <<>>

\* HeatManager.loadData: this.heatMap = new Map(data)
LoadDataStore(hm, data) == data

\* importHeatData that stores the record with the path field it came with.
ImportHeatDataAsIs(hm, filePath, data) == MapSet(hm, filePath, data)

\* HeatManager.importHeatData
ImportHeatData(hm, filePath, data) ==
   MapSet(hm, filePath, [data EXCEPT !.path = filePath])

\* HeatManager.setHeatData
SetHeatData(hm, filePath, heatData) == MapSet(hm, filePath, heatData)

\* batchFavorite of the Popular Files and Hot Files views, for one selected
\* path: getHeatData, isFavorite assigned, setHeatData.
BatchFavoriteOne(hm, filePath, isFavorite) ==
   IF filePath \notin DOMAIN hm THEN hm
   ELSE SetHeatData(hm, filePath,
                    [hm[filePath] EXCEPT !.metrics.isFavorite = isFavorite])

\* batchFavorite: this.selectedFiles.forEach(...).  Each iteration touches
\* only the record of its own path.
BatchFavoriteStore(hm, selectedFiles, isFavorite) ==
   [p \in DOMAIN hm |->
      IF p \in selectedFiles THEN BatchFavoriteOne(hm, p, isFavorite)[p]
      ELSE hm[p]]

\* --------------------------------------------------------- MetricsManager

\* The onFileAccess callback restarting the session timer on every access.
AccessMetricsRestartsSession(hm, filePath, t) ==
   LET metrics == hm[filePath].metrics
       timeSinceLastAccess == t - metrics.lastAccessed
       window == settings.heatIncrements.quickReturnWindow
       quickReturn == /\ lastAccessedFile = filePath
                      /\ timeSinceLastAccess < window
       counted == [hm EXCEPT ![filePath].metrics.accessCount = @ + 1]
       succeeded ==
          IF quickReturn
          THEN IncreaseHeat(
                  [counted EXCEPT
                     ![filePath].metrics.successionCount = @ + 1,
                     ![filePath].metrics.successionTimestamp = t],
                  filePath, Fx(settings.heatIncrements.quickReturn), t)
          ELSE IF timeSinceLastAccess > window
               THEN [counted EXCEPT ![filePath].metrics.successionCount = 0]
               ELSE counted
   IN [succeeded EXCEPT
         ![filePath].metrics.lastAccessed = t,
         ![filePath].metrics.sessionStart = t]

\* The onFileAccess callback resetting the succession only after another file
\* was accessed.
AccessMetricsResetsOnSwitch(hm, filePath, t) ==
   LET metrics == hm[filePath].metrics
       timeSinceLastAccess == t - metrics.lastAccessed
       window == settings.heatIncrements.quickReturnWindow
       quickReturn == /\ lastAccessedFile = filePath
                      /\ timeSinceLastAccess < window
       counted == [hm EXCEPT ![filePath].metrics.accessCount = @ + 1]
       succeeded ==
          IF quickReturn
          THEN IncreaseHeat(
                  [counted EXCEPT
                     ![filePath].metrics.successionCount = @ + 1,
                     ![filePath].metrics.successionTimestamp = t],
                  filePath, Fx(settings.heatIncrements.quickReturn), t)
          ELSE IF timeSinceLastAccess > window /\ lastAccessedFile # filePath
               THEN [counted EXCEPT ![filePath].metrics.successionCount = 0]
               ELSE counted
   IN [succeeded EXCEPT
         ![filePath].metrics.lastAccessed = t,
         ![filePath].metrics.sessionStart = IF @ = NULL THEN t ELSE @]

\* The updateMetrics callback of MetricsManager.onFileAccess.
AccessMetrics(hm, filePath, t) ==
   LET metrics == hm[filePath].metrics
       timeSinceLastAccess == t - metrics.lastAccessed
       window == settings.heatIncrements.quickReturnWindow
       quickReturn == /\ lastAccessedFile = filePath
                      /\ timeSinceLastAccess < window
       counted == [hm EXCEPT ![filePath].metrics.accessCount = @ + 1]
       succeeded ==
          IF quickReturn
          THEN IncreaseHeat(
                  [counted EXCEPT
                     ![filePath].metrics.successionCount = @ + 1,
                     ![filePath].metrics.successionTimestamp = t],
                  filePath, Fx(settings.heatIncrements.quickReturn), t)
          ELSE IF timeSinceLastAccess > window
               THEN [counted EXCEPT ![filePath].metrics.successionCount = 0]
               ELSE counted
   IN [succeeded EXCEPT
         ![filePath].metrics.lastAccessed = t,
         ![filePath].metrics.sessionStart = IF @ = NULL THEN t ELSE @]

\* onFileAccess adding the quick-return and the file-open increment in one
\* increase, normalized once.
OnFileAccessStoreSingleGrant(hm, filePath, t) ==
   LET created == GetOrCreateHeatData(hm, filePath, t)
       updated == AccessMetrics(created, filePath, t)
       quickReturn == updated[filePath].metrics.successionCount
                         > created[filePath].metrics.successionCount
       granted == IF quickReturn
                  THEN Fx(settings.heatIncrements.quickReturn)
                          + Fx(settings.heatIncrements.fileOpen)
                  ELSE Fx(settings.heatIncrements.fileOpen)
   IN IncreaseHeatFrom(
         [updated EXCEPT ![filePath].heatScore = created[filePath].heatScore],
         filePath, granted, t)

\* MetricsManager.onFileAccess, on the store.
OnFileAccessStore(hm, filePath, t) ==
   LET updated == AccessMetrics(GetOrCreateHeatData(hm, filePath, t), filePath, t)
   IN IncreaseHeatFrom(updated, filePath, Fx(settings.heatIncrements.fileOpen), t)

\* The updateMetrics callback of MetricsManager.onFileEdit.
EditMetrics(hm, filePath, t) ==
   [hm EXCEPT ![filePath].metrics.editCount = @ + 1,
              ![filePath].metrics.lastEdited = t,
              ![filePath].metrics.lastAccessed = t]

\* MetricsManager.onFileEdit, on the store.
OnFileEditStore(hm, filePath, t) ==
   LET updated == EditMetrics(GetOrCreateHeatData(hm, filePath, t), filePath, t)
   IN IncreaseHeatFrom(updated, filePath, Fx(settings.heatIncrements.fileEdit), t)

\* The duration bonus of onFileClose without its Math.min(10, ...).
DurationHeatUncapped(sessionDuration) ==
   (Log10Centi(sessionDuration + 60 * 1000, 60 * 1000) * 5 * HeatScale) \div 100

\* The duration bonus of onFileClose: min(10, log10(minutes + 1) * 5).
DurationHeat(sessionDuration) ==
   Min(Fx(10),
       (Log10Centi(sessionDuration + 60 * 1000, 60 * 1000) * 5 * HeatScale)
          \div 100)

\* MetricsManager.onFileClose, on the store.
OnFileCloseStore(hm, filePath, t) ==
   IF filePath \notin DOMAIN hm THEN hm
   ELSE IF hm[filePath].metrics.sessionStart = NULL THEN hm
   ELSE LET sessionDuration == t - hm[filePath].metrics.sessionStart
            closed == [hm EXCEPT
                         ![filePath].metrics.totalDuration = @ + sessionDuration,
                         ![filePath].metrics.sessionStart = NULL]
            durationHeat == DurationHeat(sessionDuration)
        IN IF durationHeat > 0
           THEN IncreaseHeat(closed, filePath, durationHeat, t)
           ELSE closed

\* The largest value of a metric over the records of hm (0 for an empty store).
MaxOver(hm, metric) ==
   IF DOMAIN hm = {} THEN 0
   ELSE LET p == CHOOSE q \in DOMAIN hm :
                    \A r \in DOMAIN hm :
                       hm[q].metrics[metric] >= hm[r].metrics[metric]
        IN Max(0, hm[p].metrics[metric])

\* MetricsManager.calculateFrequencyScore
CalculateFrequencyScore(metrics, maxAccessCount) ==
   IF maxAccessCount = 0 THEN 0
   ELSE (metrics.accessCount * Fx(100)) \div maxAccessCount

\* MetricsManager.calculateRecencyScore
CalculateRecencyScore(metrics, t) ==
   LET timeSinceAccess == t - metrics.lastAccessed
       score == (Fx(100) * ExpNegMilli(timeSinceAccess,
                                       7 * 1000 * 60 * 60 * 24)) \div 1000
   IN Max(0, Min(Fx(100), score))

\* MetricsManager.calculateSuccessionScore
CalculateSuccessionScore(metrics) ==
   LET score == (Fx(100) * (1000 - ExpNegMilli(metrics.successionCount, 3)))
                   \div 1000
   IN Max(0, Min(Fx(100), score))

\* MetricsManager.calculateDurationScore
CalculateDurationScore(metrics, maxDuration) ==
   IF maxDuration = 0 THEN 0
   ELSE (Log10Centi(metrics.totalDuration + 1, 1) * Fx(100))
           \div Log10Centi(maxDuration + 1, 1)

\* calculateEditScore giving 100 points per edit instead of the share of the
\* largest edit count.
CalculateEditScoreUnscaled(metrics, maxEditCount) ==
   IF maxEditCount = 0 THEN 0
   ELSE metrics.editCount * Fx(100)

\* MetricsManager.calculateEditScore
CalculateEditScore(metrics, maxEditCount) ==
   IF maxEditCount = 0 THEN 0
   ELSE (metrics.editCount * Fx(100)) \div maxEditCount

\* MetricsManager.calculateCompositeScore
CalculateCompositeScore(hm, filePath, t) ==
   IF filePath \notin DOMAIN hm THEN 0
   ELSE LET metrics == hm[filePath].metrics
            weights == settings.metricWeights
            composite ==
               ( CalculateFrequencyScore(metrics, MaxOver(hm, "accessCount"))
                    * weights.frequency
               + CalculateRecencyScore(metrics, t) * weights.recency
               + CalculateSuccessionScore(metrics) * weights.succession
               + CalculateDurationScore(metrics, MaxOver(hm, "totalDuration"))
                    * weights.duration
               + CalculateEditScore(metrics, MaxOver(hm, "editCount"))
                    * weights.edits ) \div 100
        IN Max(0, Min(Fx(100), composite))

\* MetricsManager.recalculateAllHeat, on the store.
RecalculateAllHeatStore(hm, t) ==
   [p \in DOMAIN hm |->
      LET compositeScore == CalculateCompositeScore(hm, p, t)
          boosted == IF hm[p].metrics.isFavorite
                     THEN compositeScore + hm[p].metrics.favoriteBoost
                     ELSE compositeScore
      IN [hm[p] EXCEPT !.heatScore = NormalizeHeat(boosted),
                       !.lastUpdated = t]]

\* ----------------------------------------------------------- DecayManager

\* The body of performDecay's loop without its "Skip if heat is already at 0".
DecayOneAlsoCold(hm, filePath, t) ==
   LET heatData == hm[filePath] IN
   IF heatData.metrics.isFavorite /\ settings.pauseDecayForFavorites
   THEN heatData
   ELSE LET decayPercentage ==
               IF settings.differentialDecay /\ heatData.heatScore > Fx(70)
               THEN settings.decayRate * settings.differentialMultiplier
               ELSE settings.decayRate
        IN DecreaseHeat(hm, filePath, decayPercentage, t)[filePath]

\* The body of performDecay's loop for one record.
DecayOne(hm, filePath, t) ==
   LET heatData == hm[filePath] IN
   IF heatData.heatScore <= 0 THEN heatData
   ELSE IF heatData.metrics.isFavorite /\ settings.pauseDecayForFavorites
        THEN heatData
        ELSE LET decayPercentage ==
                    IF settings.differentialDecay /\ heatData.heatScore > Fx(70)
                    THEN settings.decayRate * settings.differentialMultiplier
                    ELSE settings.decayRate
             IN DecreaseHeat(hm, filePath, decayPercentage, t)[filePath]

\* DecayManager.performDecay, on the store.
PerformDecayStore(hm, t) == [p \in DOMAIN hm |-> DecayOne(hm, p, t)]

\* const intervalMs = this.settings.decayInterval * 60 * 1000
IntervalMs(s) == s.decayInterval * 60 * 1000

\* A quotient x / 0 with x > 0: larger than every loop counter.
Infinity == 2147483647
\* The quotient 0 / 0: no comparison with it is true; it is only ever tested
\* with "> 0", as a non-positive number is.
NaN == 0 - 1

\* The missed cycles rounded up instead of down.
MissedCyclesRoundedUp(last, t, s) ==
   (t - last + IntervalMs(s) - 1) \div IntervalMs(s)

\* calculateMissedDecay: Math.floor(timeSinceLastDecay / intervalMs), for an
\* interval that is not negative.
MissedCycles(last, t, s) ==
   IF IntervalMs(s) = 0
   THEN IF t - last > 0 THEN Infinity ELSE NaN
   ELSE (t - last) \div IntervalMs(s)

\* The DecayManager's fields, the store it decays and the timers of window,
\* as one value that start() and stop() transform.
Scheduler ==
   [ decayIntervalId |-> decayIntervalId,
     lastDecayTime |-> lastDecayTime,
     timers |-> timers,
     nextTimerId |-> nextTimerId,
     heatMap |-> heatMap,
     cyclesApplied |-> cyclesApplied,
     hung |-> hung ]

\* performDecay without its "this.lastDecayTime = Date.now()".
PerformDecayKeepingTime(d, t) ==
   [d EXCEPT !.heatMap = PerformDecayStore(d.heatMap, t),
             !.cyclesApplied = @ + 1]

\* DecayManager.performDecay
PerformDecay(d, t) ==
   [d EXCEPT !.heatMap = PerformDecayStore(d.heatMap, t),
             !.lastDecayTime = t,
             !.cyclesApplied = @ + 1]

\* calculateMissedDecay: for (let i = 0; i < missedCycles; i++) performDecay(true)
RECURSIVE MissedDecayLoop(_, _, _, _)
MissedDecayLoop(d, i, missedCycles, t) ==
   IF i < missedCycles
   THEN MissedDecayLoop(PerformDecay(d, t), i + 1, missedCycles, t)
   ELSE d

\* DecayManager.calculateMissedDecay.  With missedCycles = Infinity the
\* condition i < missedCycles of the loop never fails: the call does not return.
CalculateMissedDecay(d, s, t) ==
   LET missedCycles == MissedCycles(d.lastDecayTime, t, s)
   IN IF missedCycles = Infinity
      THEN [d EXCEPT !.hung = TRUE]
      ELSE LET replayed == IF missedCycles > 0
                           THEN MissedDecayLoop(d, 0, missedCycles, t)
                           ELSE d
           IN [replayed EXCEPT !.lastDecayTime = t]

\* DecayManager.start
StartScheduler(d, s, t) ==
   LET caught == IF s.calculateDecayWhileClosed
                 THEN CalculateMissedDecay(d, s, t)
                 ELSE d
       id == caught.nextTimerId
   IN IF caught.hung THEN caught
      ELSE [caught EXCEPT
              !.timers = MapSet(caught.timers, id,
                                [due |-> t + IntervalMs(s),
                                 interval |-> IntervalMs(s)]),
              !.decayIntervalId = id,
              !.nextTimerId = id + 1]

\* DecayManager.stop
StopScheduler(d, t) ==
   [d EXCEPT
      !.timers = IF d.decayIntervalId # NoTimer
                 THEN MapDelete(d.timers, d.decayIntervalId)
                 ELSE d.timers,
      !.decayIntervalId = NoTimer,
      !.lastDecayTime = t]

\* DecayManager.updateSettings
UpdateScheduler(d, old, new, t) ==
   IF new.decayInterval # old.decayInterval /\ d.decayIntervalId # NoTimer
   THEN StartScheduler(StopScheduler(d, t), new, t)
   ELSE d

\* The scheduler value d becomes the state.
SetScheduler(d) ==
   /\ decayIntervalId' = d.decayIntervalId
   /\ lastDecayTime' = d.lastDecayTime
   /\ timers' = d.timers
   /\ nextTimerId' = d.nextTimerId
   /\ heatMap' = d.heatMap
   /\ cyclesApplied' = d.cyclesApplied
   /\ hung' = d.hung

\* renameFile that leaves the record's path field as it was.
RenameFileStoreKeepingPath(hm, oldPath, newPath) ==
   IF oldPath \in DOMAIN hm
   THEN MapSet(MapDelete(hm, oldPath), newPath, hm[oldPath])
   ELSE hm

\* HeatManager.renameFile
RenameFileStore(hm, oldPath, newPath) ==
   IF oldPath \in DOMAIN hm
   THEN MapSet(MapDelete(hm, oldPath), newPath,
               [hm[oldPath] EXCEPT !.path = newPath])
   ELSE hm

\* ---------------------------------------------------------- ArchivalManager

\* The sum of the heat scores of the records under keys.
RECURSIVE SumHeat(_, _)
SumHeat(hm, keys) ==
   IF keys = {} THEN 0
   ELSE LET k == CHOOSE x \in keys : TRUE
        IN hm[k].heatScore + SumHeat(hm, keys \ {k})

\* The snapshot object createSnapshot builds at time t.  data is
\* new Map(allHeatData), a copy of the map whose values are the store's own
\* record objects: it is kept as the keys copied, and a key's value is read
\* through the store (SnapshotData).  recorded is history: the values those
\* records had at time t.
HeatSnapshot(hm, t) ==
   [timestamp |-> t,
    fileCount |-> Cardinality(DOMAIN hm),
    averageHeat |-> IF Cardinality(DOMAIN hm) > 0
                    THEN SumHeat(hm, DOMAIN hm) \div Cardinality(DOMAIN hm)
                    ELSE 0,
    data |-> DOMAIN hm,
    recorded |-> hm]

\* snapshot.data as it reads now, while every record object it shares with
\* the store is still in the store under its key.
SnapshotData(snapshot, hm) == [p \in snapshot.data |-> hm[p]]

\* loadSnapshot with a backup taken on every call.
BackupCurrentStateAlways(backup, hm) == [present |-> TRUE, data |-> hm]

\* loadSnapshot's "Store current state before overwriting": the store is
\* backed up unless a backup is held.
BackupCurrentState(backup, hm) ==
   IF backup.present THEN backup ELSE [present |-> TRUE, data |-> hm]

\* ------------------------------------------------------------ import/export

\* One turn of applyImportStrategy's merge loop that imports the entry of a
\* tracked path whatever its score.
ImportEntryOverwriting(r, currentData, path, heatData, strategy) ==
   IF path \in DOMAIN currentData
   THEN IF strategy = "merge"
        THEN [store |-> ImportHeatData(r.store, path, heatData),
              stats |-> [r.stats EXCEPT !.updated = @ + 1]]
        ELSE [r EXCEPT !.stats.skipped = @ + 1]
   ELSE [store |-> ImportHeatData(r.store, path, heatData),
         stats |-> [r.stats EXCEPT !.imported = @ + 1]]

\* One turn of the loop of applyImportStrategy for 'merge' or 'skip', on the
\* store and the stats so far: an entry of a path tracked when the import
\* began is imported only by 'merge' and only with a higher heatScore, and
\* skipped otherwise; an entry of any other path is imported.
ImportEntry(r, currentData, path, heatData, strategy) ==
   IF path \in DOMAIN currentData
   THEN IF strategy = "merge" /\ heatData.heatScore > currentData[path].heatScore
        THEN [store |-> ImportHeatData(r.store, path, heatData),
              stats |-> [r.stats EXCEPT !.updated = @ + 1]]
        ELSE [r EXCEPT !.stats.skipped = @ + 1]
   ELSE [store |-> ImportHeatData(r.store, path, heatData),
         stats |-> [r.stats EXCEPT !.imported = @ + 1]]

\* for (const [path, heatData] of Object.entries(dataStore.files)), over the
\* entries that remain.
RECURSIVE ImportLoop(_, _, _, _, _)
ImportLoop(r, currentData, files, remaining, strategy) ==
   IF remaining = {} THEN r
   ELSE LET path == CHOOSE p \in remaining : TRUE
        IN ImportLoop(ImportEntry(r, currentData, path, files[path], strategy),
                      currentData, files, remaining \ {path}, strategy)

\* applyImportStrategy(dataStore, strategy) for 'merge' and 'skip': the store
\* it leaves and the stats it returns (entries is history: the number of
\* entries of the import).
ApplyImportStrategy(hm, files, strategy) ==
   ImportLoop([store |-> hm,
               stats |-> [NoStats EXCEPT !.entries = Cardinality(DOMAIN files)]],
              hm, files, DOMAIN files, strategy)

\* ------------------------------------------------------- bulk replacement

\* The replacement procedures clear the store and fill it in one synchronous
\* run: loadSnapshot, restoreCurrentState and the replace branch of
\* applyImportStrategy hold no await between their clear and the end of their
\* loop.  Another callback can run only while no such run is under way.
SuspendedAfterClear(phase) == phase \in {"idle", "loading"}

Suspended(phase) == phase = "idle"

\* -------------------------------------------------------------- DataStore

\* The DataStore's fields, as one value that save() transforms.
DataStore == [isDirty |-> isDirty, saveTimeout |-> saveTimeout, saving |-> saving]

\* new DataStore(...)
NewDataStore == [isDirty |-> FALSE, saveTimeout |-> FALSE, saving |-> FALSE]

\* DataStore.save(immediate): the store is dirty; an immediate save starts
\* performSave, any other (re)arms the debounce timer.
Save(ds, immediate) ==
   IF immediate
   THEN [ds EXCEPT !.isDirty = TRUE, !.saving = TRUE]
   ELSE [ds EXCEPT !.isDirty = TRUE, !.saveTimeout = TRUE]

\* DataStore.performSave once its promise has settled: nothing to do when the
\* store is not dirty; isDirty is cleared when createBackup and saveData
\* succeeded and left alone when one of them threw (the catch block logs and
\* shows a Notice).  The save that ran is over.
PerformSaveSettled(ds, immediate, fails) ==
   LET written == IF ds.isDirty /\ ~fails
                  THEN [ds EXCEPT !.isDirty = FALSE]
                  ELSE ds
   IN IF immediate
      THEN [written EXCEPT !.saving = FALSE]
      ELSE [written EXCEPT !.saveTimeout = FALSE]

\* A performSave call on its way: a debounce timer that has not fired
\* ("timer"), a call waiting in createBackup ("backup"), or a call waiting in
\* saveData ("write") with the store it handed over and the number of saved
\* mutations that store holds.  debounced: the call came from the timer;
\* current: the timer's id is the one in DataStore.saveTimeout.
SaveCall(phase, debounced, current, files, m) ==
   [phase |-> phase, debounced |-> debounced, current |-> current,
    files |-> files, mutations |-> m]

\* The sequence without its i-th element.
RemoveAt(calls, i) == SubSeq(calls, 1, i - 1) \o SubSeq(calls, i + 1, Len(calls))

\* window.clearTimeout(this.saveTimeout): the timer whose id is held goes.
RECURSIVE ClearTimeout(_)
ClearTimeout(calls) ==
   IF calls = <<>> THEN <<>>
   ELSE IF Head(calls).phase = "timer" /\ Head(calls).current
        THEN Tail(calls)
        ELSE <<Head(calls)>> \o ClearTimeout(Tail(calls))

\* this.saveTimeout = null: no timer's id is held any more.
ForgetTimeout(calls) ==
   [i \in 1..Len(calls) |-> [calls[i] EXCEPT !.current = FALSE]]

\* DataStore.save() with the calls on their way: the timer held is cleared
\* and a new one is set.
SaveDebounced(calls, held) ==
   Append(IF held THEN ClearTimeout(calls) ELSE calls,
          SaveCall("timer", TRUE, TRUE, <<>>, 0))

\* DataStore.performSave up to its first await: it returns at once when the
\* store is not dirty and waits in createBackup otherwise.
PerformSaveStart(calls, dirty, debounced) ==
   IF dirty
   THEN Append(calls, SaveCall("backup", debounced, FALSE, <<>>, 0))
   ELSE calls

\* DataStore.performSave from createBackup's return to its second await: the
\* store is handed to plugin.saveData.
PerformSaveWrite(call, hm, m) ==
   SaveCall("write", call.debounced, FALSE, hm, m)

\* What the data file holds after saveData wrote the store of this call.
Written(call) == [written |-> TRUE, mutations |-> call.mutations, files |-> call.files]

\* The data store value ds becomes the state.
SetDataStore(ds) ==
   /\ isDirty' = ds.isDirty
   /\ saveTimeout' = ds.saveTimeout
   /\ saving' = ds.saving

\* ---------------------------------------------------------------- actions

\* What a step ran: the operation, its path, and the performDecay calls it made.
Op(name, filePath, cycles) == [op |-> name, path |-> filePath, cycles |-> cycles]

\* A usage event or store operation turns the store into hm.
EngineStep(hm, name, filePath) ==
   /\ loaded
   /\ ~hung
   /\ Suspended(bulk.phase)
   /\ ops < MaxOps
   /\ heatMap' = hm
   /\ ops' = ops + 1
   /\ lastOp' = Op(name, filePath, 0)
   /\ UNCHANGED <<settings, now, loaded, schedVars, unloadedAt, schedOps, normVars,
                  hung, dataVars, restVars, auxVars>>

\* MetricsManager.onFileAccess(filePath)
OnFileAccess(filePath) ==
   /\ EngineStep(OnFileAccessStore(heatMap, filePath, now), "onFileAccess", filePath)
   /\ lastAccessedFile' = filePath

\* MetricsManager.onFileEdit(filePath)
OnFileEdit(filePath) ==
   /\ EngineStep(OnFileEditStore(heatMap, filePath, now), "onFileEdit", filePath)
   /\ UNCHANGED lastAccessedFile

\* MetricsManager.onFileClose(filePath)
OnFileClose(filePath) ==
   /\ EngineStep(OnFileCloseStore(heatMap, filePath, now), "onFileClose", filePath)
   /\ UNCHANGED lastAccessedFile

\* HeatManager.setFavorite(filePath, isFavorite)
SetFavorite(filePath, isFavorite) ==
   /\ EngineStep(SetFavoriteStore(heatMap, filePath, isFavorite, now),
                 IF isFavorite THEN "setFavorite" ELSE "unsetFavorite", filePath)
   /\ UNCHANGED lastAccessedFile

\* HeatManager.resetFileHeat(filePath)
ResetFileHeat(filePath) ==
   /\ EngineStep(ResetFileHeatStore(heatMap, filePath, now), "resetFileHeat", filePath)
   /\ UNCHANGED lastAccessedFile

\* HeatManager.removeFile(filePath)
RemoveFile(filePath) ==
   /\ EngineStep(RemoveFileStore(heatMap, filePath), "removeFile", filePath)
   /\ UNCHANGED lastAccessedFile

\* HeatManager.renameFile(oldPath, newPath)
RenameFile(oldPath, newPath) ==
   /\ EngineStep(RenameFileStore(heatMap, oldPath, newPath), "renameFile", oldPath)
   /\ UNCHANGED lastAccessedFile

\* HeatManager.importHeatData(filePath, data)
ImportRecord(filePath, data) ==
   /\ EngineStep(ImportHeatData(heatMap, filePath, data), "importHeatData", filePath)
   /\ UNCHANGED lastAccessedFile

\* HeatManager.clear()
Clear ==
   /\ EngineStep(ClearAllData(heatMap), "clear", NoFile)
   /\ UNCHANGED lastAccessedFile

\* batchFavorite(container, isFavorite) of a view, over its selected files
\* (it returns at once when nothing is selected).
BatchFavorite(selectedFiles, isFavorite) ==
   /\ selectedFiles # {}
   /\ EngineStep(BatchFavoriteStore(heatMap, selectedFiles, isFavorite),
                 IF isFavorite THEN "batchFavorite" ELSE "batchUnfavorite", NoFile)
   /\ UNCHANGED lastAccessedFile

\* The values the manual boost slider is moved between.
BoostValues == {50, 80}

\* The manual boost slider's onChange: settings.manualBoostValue = value, then
\* saveSettings(), which hands every manager the settings object it already
\* holds (so DecayManager.updateSettings sees no interval change).
SaveSettings(value) ==
   /\ loaded
   /\ ~hung
   /\ Suspended(bulk.phase)
   /\ value # settings.manualBoostValue
   /\ settings' = [settings EXCEPT !.manualBoostValue = value]
   /\ lastOp' = Op("saveSettings", NoFile, 0)
   /\ UNCHANGED <<engineVars, now, loaded, schedVars, unloadedAt, ops, schedOps,
                  normVars, hung, dataVars, restVars, auxVars>>

\* MetricsManager.recalculateAllHeat()
RecalculateAllHeat ==
   /\ EngineStep(RecalculateAllHeatStore(heatMap, now), "recalculateAllHeat", NoFile)
   /\ UNCHANGED lastAccessedFile

\* A minute passes; a timer that is due fires first.
Advance(minutes) ==
   /\ now < minutes * StepMs
   /\ \A id \in DOMAIN timers : timers[id].due > now
   /\ now' = now + StepMs
   /\ UNCHANGED <<engineVars, settings, loaded, schedVars, lastOp, unloadedAt,
                  ops, schedOps, normVars, hung, dataVars, restVars, auxVars>>

\* The setInterval callback of start(): performDecay(), which ends with
\* dataStore.save().
TimerFire(id) ==
   /\ loaded
   /\ ~hung
   /\ Suspended(bulk.phase)
   /\ id \in DOMAIN timers
   /\ timers[id].due <= now
   /\ SetScheduler([PerformDecay(Scheduler, now) EXCEPT
                      !.timers[id].due = @ + timers[id].interval])
   /\ lastOp' = Op("performDecay", NoFile, 1)
   /\ SetDataStore(Save(DataStore, FALSE))
   /\ UNCHANGED <<lastAccessedFile, settings, now, loaded, startedAt,
                  startedInterval, unloadedAt, ops, schedOps, normVars, restVars, auxVars>>

\* A scheduler or lifecycle call on the data store ds; a catch-up that replayed
\* cycles ends with dataStore.save(true).
SchedStep(name, cyclesBefore, ds) ==
   /\ ~hung
   /\ Suspended(bulk.phase)
   /\ schedOps < MaxSchedOps
   /\ schedOps' = schedOps + 1
   /\ lastOp' = Op(name, NoFile, cyclesApplied' - cyclesBefore)
   /\ SetDataStore(IF cyclesApplied' > cyclesBefore THEN Save(ds, TRUE) ELSE ds)
   /\ UNCHANGED <<now, ops, normVars, restVars, auxVars>>

\* DecayManager.start()
Start ==
   /\ loaded
   /\ nextTimerId <= MaxTimers
   /\ SetScheduler(StartScheduler(Scheduler, settings, now))
   /\ SchedStep("start", cyclesApplied, DataStore)
   /\ startedAt' = IF startedAt = NULL THEN now ELSE startedAt
   /\ startedInterval' = IF startedAt = NULL THEN settings.decayInterval
                         ELSE startedInterval
   /\ UNCHANGED <<lastAccessedFile, settings, loaded, unloadedAt, auxVars>>

\* DecayManager.stop()
Stop ==
   /\ loaded
   /\ SetScheduler(StopScheduler(Scheduler, now))
   /\ SchedStep("stop", cyclesApplied, DataStore)
   /\ UNCHANGED <<lastAccessedFile, settings, loaded, startedAt, startedInterval,
                  unloadedAt, auxVars>>

\* The decay intervals (minutes) the settings tab is given.
DecayIntervals == {1, 2}

\* EmberPlugin.saveSettings with a new decay interval:
\* DecayManager.updateSettings(settings).
UpdateSettings(interval) ==
   /\ loaded
   /\ nextTimerId <= MaxTimers
   /\ interval # settings.decayInterval
   /\ settings' = [settings EXCEPT !.decayInterval = interval]
   /\ SetScheduler(UpdateScheduler(Scheduler, settings, settings', now))
   /\ SchedStep("updateSettings", cyclesApplied, DataStore)
   /\ startedInterval' = NULL
   /\ UNCHANGED <<lastAccessedFile, loaded, startedAt, unloadedAt, auxVars>>

\* EmberPlugin.onunload: decayManager.stop(); the intervals registered with
\* registerInterval are cleared and the data is saved.
Unload ==
   /\ loaded
   /\ SetScheduler([StopScheduler(Scheduler, now) EXCEPT !.timers = <<>>])
   /\ SchedStep("unload", cyclesApplied, DataStore)
   /\ loaded' = FALSE
   /\ unloadedAt' = now
   /\ UNCHANGED <<lastAccessedFile, settings, startedAt, startedInterval, auxVars>>

\* EmberPlugin.onload: the saved store is loaded, the managers are constructed
\* and the decay scheduler is created and started.
Load ==
   /\ ~loaded
   /\ nextTimerId <= MaxTimers
   /\ SetScheduler(StartScheduler(
         [Scheduler EXCEPT !.decayIntervalId = NoTimer,
                           !.lastDecayTime = now,
                           !.cyclesApplied = 0],
         settings, now))
   /\ SchedStep("load", 0, NewDataStore)
   /\ lastAccessedFile' = NoFile
   /\ loaded' = TRUE
   /\ startedAt' = now
   /\ startedInterval' = settings.decayInterval
   /\ UNCHANGED <<settings, unloadedAt, auxVars>>

\* normalizeHeat applied to the two raw values.
Normalize ==
   /\ outA = NULL
   /\ outA' = NormalizeHeat(rawA)
   /\ outB' = NormalizeHeat(rawB)
   /\ UNCHANGED <<engineVars, settings, now, loaded, schedVars, lastOp,
                  unloadedAt, ops, schedOps, rawA, rawB, hung, dataVars, restVars, auxVars>>

\* A save comes to its end: the performSave that save(true) started, or the
\* one the debounce timer runs; writing the data file succeeds or fails.
PerformSave(immediate, fails) ==
   /\ loaded
   /\ ~hung
   /\ Suspended(bulk.phase)
   /\ IF immediate THEN saving ELSE saveTimeout
   /\ SetDataStore(PerformSaveSettled(DataStore, immediate, fails))
   /\ saveFailed' = (saveFailed \/ (isDirty /\ fails))
   /\ lastOp' = Op(IF isDirty /\ fails THEN "saveFailed" ELSE "saved", NoFile, 0)
   /\ UNCHANGED <<engineVars, settings, now, loaded, schedVars, unloadedAt,
                  ops, schedOps, normVars, hung, levelA, levelB,
                  currentStateBackup, bulk, auxVars>>

\* The stores that snapshots, import files and the data file hold: stores
\* that earlier sessions left.
SavedIds == 1..3

SavedStore(i) ==
   CASE i = 1 -> <<>>
     [] i = 2 -> OnFileEditStore(<<>>, "a", 0)
     [] i = 3 -> OnFileAccessStore(OnFileEditStore(<<>>, "a", 0), "b", 0)

\* A replacement procedure has cleared the store and is about to fill it
\* with incoming.
BulkStep(kind, incoming) ==
   /\ loaded
   /\ ~hung
   /\ bulk.phase = "idle"
   /\ ops < MaxOps
   /\ ops' = ops + 1
   /\ heatMap' = ClearAllData(heatMap)
   /\ bulk' = [phase |-> "loading", kind |-> kind, incoming |-> incoming,
               remaining |-> DOMAIN incoming]
   /\ lastOp' = Op(kind, NoFile, 0)
   /\ UNCHANGED <<lastAccessedFile, settings, now, loaded, schedVars, unloadedAt,
                  schedOps, normVars, hung, dataVars, saveFailed, levelA, levelB, auxVars>>

\* ArchivalManager.loadSnapshot, up to its loop: the current state is backed
\* up unless a backup is held, and the store is cleared.
LoadSnapshot(snapshot) ==
   /\ BulkStep("loadSnapshot", snapshot)
   /\ currentStateBackup' = BackupCurrentState(currentStateBackup, heatMap)

\* ArchivalManager.restoreCurrentState while no backup is held: it warns and
\* returns.
RestoreWithoutBackup ==
   /\ loaded
   /\ ~hung
   /\ Suspended(bulk.phase)
   /\ ~currentStateBackup.present
   /\ lastOp' = Op("restoreCurrentState", NoFile, 0)
   /\ UNCHANGED <<engineVars, settings, now, loaded, schedVars, unloadedAt,
                  ops, schedOps, normVars, hung, dataVars, restVars, auxVars>>

\* ArchivalManager.restoreCurrentState, up to its loop.
RestoreCurrentState ==
   /\ currentStateBackup.present
   /\ BulkStep("restoreCurrentState", currentStateBackup.data)
   /\ UNCHANGED currentStateBackup

\* applyImportStrategy(dataStore, 'replace'), up to its loop.
ReplaceImport(files) ==
   /\ BulkStep("replaceImport", files)
   /\ UNCHANGED currentStateBackup

\* One turn of the loop of a replacement procedure: setHeatData or
\* importHeatData of one entry.
BulkSet(filePath) ==
   /\ bulk.phase = "loading"
   /\ filePath \in bulk.remaining
   /\ heatMap' = IF bulk.kind = "replaceImport"
                 THEN ImportHeatData(heatMap, filePath, bulk.incoming[filePath])
                 ELSE SetHeatData(heatMap, filePath, bulk.incoming[filePath])
   /\ bulk' = [bulk EXCEPT !.remaining = @ \ {filePath}]
   /\ UNCHANGED <<lastAccessedFile, settings, now, loaded, schedVars, lastOp,
                  unloadedAt, ops, schedOps, normVars, hung, dataVars,
                  saveFailed, levelA, levelB, currentStateBackup, auxVars>>

\* The loop of a replacement procedure is over and the procedure returns;
\* restoreCurrentState drops its backup.
BulkEnd ==
   /\ bulk.phase = "loading"
   /\ bulk.remaining = {}
   /\ bulk' = [bulk EXCEPT !.phase = "idle"]
   /\ currentStateBackup' =
         IF bulk.kind = "restoreCurrentState" THEN NoBackup
         ELSE currentStateBackup
   /\ UNCHANGED <<engineVars, settings, now, loaded, schedVars, lastOp,
                  unloadedAt, ops, schedOps, normVars, hung, dataVars,
                  saveFailed, levelA, levelB, auxVars>>

\* DataStore.load from its heatManager.loadData(heatMap) on: the store is
\* replaced by one assignment.
LoadData(data) ==
   /\ EngineStep(LoadDataStore(heatMap, data), "loadData", NoFile)
   /\ UNCHANGED lastAccessedFile

\* getHeatLevel applied to the two scores.
Classify ==
   /\ levelA = NoLevel
   /\ levelA' = GetHeatLevel(rawA)
   /\ levelB' = GetHeatLevel(rawB)
   /\ UNCHANGED <<engineVars, settings, now, loaded, schedVars, lastOp,
                  unloadedAt, ops, schedOps, normVars, hung, dataVars,
                  saveFailed, currentStateBackup, bulk, auxVars>>

\* What the steps of the debounced persistence leave alone.
saveFrame == <<lastAccessedFile, settings, now, loaded, schedVars, unloadedAt,
               ops, schedOps, normVars, hung, saving, restVars, snapshots,
               hottest, importStats>>

\* EmberPlugin.toggleFileFavorite(file): setFavorite, then dataStore.save().
ToggleFileFavorite(filePath) ==
   LET heatData == GetHeatData(heatMap, filePath)
       isFavorite == IF heatData = Undefined THEN FALSE
                     ELSE heatData.metrics.isFavorite
   IN /\ loaded
      /\ mutations < MaxMutations
      /\ heatMap' = SetFavoriteStore(heatMap, filePath, ~isFavorite, now)
      /\ mutations' = mutations + 1
      /\ isDirty' = TRUE
      /\ saveTimeout' = TRUE
      /\ inFlight' = SaveDebounced(inFlight, saveTimeout)
      /\ lastOp' = Op("toggleFileFavorite", filePath, 0)
      /\ UNCHANGED <<saveFrame, disk>>

\* DataStore.save(true) up to performSave's first await.
SaveImmediate ==
   /\ loaded
   /\ Len(inFlight) < MaxSaves
   /\ isDirty' = TRUE
   /\ inFlight' = PerformSaveStart(inFlight, TRUE, FALSE)
   /\ lastOp' = Op("save", NoFile, 0)
   /\ UNCHANGED <<saveFrame, heatMap, saveTimeout, disk, mutations>>

\* DataStore.forceSave() up to performSave's first await.
ForceSave ==
   /\ loaded
   /\ Len(inFlight) < MaxSaves
   /\ saveTimeout' = FALSE
   /\ inFlight' = PerformSaveStart(IF saveTimeout THEN ClearTimeout(inFlight)
                                   ELSE inFlight,
                                   isDirty, FALSE)
   /\ lastOp' = Op("forceSave", NoFile, 0)
   /\ UNCHANGED <<saveFrame, heatMap, isDirty, disk, mutations>>

\* The debounce timer's callback: performSave up to its first await; a
\* performSave that returns at once resolves, and saveTimeout becomes null.
SaveTimerFire(i) ==
   /\ i \in 1..Len(inFlight)
   /\ inFlight[i].phase = "timer"
   /\ inFlight' = IF isDirty
                  THEN PerformSaveStart(RemoveAt(inFlight, i), TRUE, TRUE)
                  ELSE ForgetTimeout(RemoveAt(inFlight, i))
   /\ saveTimeout' = (isDirty /\ saveTimeout)
   /\ lastOp' = Op("saveTimer", NoFile, 0)
   /\ UNCHANGED <<saveFrame, heatMap, isDirty, disk, mutations>>

\* createBackup has returned: performSave builds the store object and calls
\* plugin.saveData with it.
BackupDone(i) ==
   /\ i \in 1..Len(inFlight)
   /\ inFlight[i].phase = "backup"
   /\ inFlight' = [inFlight EXCEPT ![i] = PerformSaveWrite(@, heatMap, mutations)]
   /\ lastOp' = Op("saveData", NoFile, 0)
   /\ UNCHANGED <<saveFrame, heatMap, isDirty, saveTimeout, disk, mutations>>

\* plugin.saveData has settled: when it wrote the file isDirty is cleared,
\* when it rejected the catch block leaves isDirty alone; the timer's
\* callback then sets saveTimeout to null.
WriteDone(i, fails) ==
   /\ i \in 1..Len(inFlight)
   /\ inFlight[i].phase = "write"
   /\ disk' = IF fails THEN disk ELSE Written(inFlight[i])
   /\ isDirty' = (isDirty /\ fails)
   /\ saveTimeout' = (saveTimeout /\ ~inFlight[i].debounced)
   /\ inFlight' = IF inFlight[i].debounced
                  THEN ForgetTimeout(RemoveAt(inFlight, i))
                  ELSE RemoveAt(inFlight, i)
   /\ lastOp' = Op(IF fails THEN "saveFailed" ELSE "saved", NoFile, 0)
   /\ UNCHANGED <<saveFrame, heatMap, mutations>>

\* ArchivalManager.createSnapshot up to its first await; the snapshots held
\* stay within retentionDays and maxSnapshots, so cleanupOldSnapshots drops
\* none.
CreateSnapshot ==
   /\ loaded
   /\ ~hung
   /\ Suspended(bulk.phase)
   /\ Len(snapshots) < MaxSnapshots
   /\ snapshots' = Append(snapshots, HeatSnapshot(heatMap, now))
   /\ lastOp' = Op("createSnapshot", NoFile, 0)
   /\ UNCHANGED <<engineVars, settings, now, loaded, schedVars, unloadedAt,
                  ops, schedOps, normVars, hung, dataVars, restVars, inFlight,
                  disk, mutations, hottest, importStats>>

\* HeatManager.getHottestFiles(limit)
GetHottest(limit) ==
   /\ loaded
   /\ ~hung
   /\ Suspended(bulk.phase)
   /\ \E order \in SortedByHeat(heatMap) :
         hottest' = [asked |-> TRUE, limit |-> limit,
                     files |-> GetHottestFiles(heatMap, order, limit)]
   /\ lastOp' = Op("getHottestFiles", NoFile, 0)
   /\ UNCHANGED <<engineVars, settings, now, loaded, schedVars, unloadedAt,
                  ops, schedOps, normVars, hung, dataVars, restVars, inFlight,
                  disk, mutations, snapshots, importStats>>

\* applyImportStrategy(dataStore, strategy) with strategy 'merge' or 'skip'
ApplyImport(strategy, files) ==
   /\ loaded
   /\ ~hung
   /\ Suspended(bulk.phase)
   /\ heatMap' = ApplyImportStrategy(heatMap, files, strategy).store
   /\ importStats' = ApplyImportStrategy(heatMap, files, strategy).stats
   /\ lastOp' = Op(strategy, NoFile, 0)
   /\ UNCHANGED <<lastAccessedFile, settings, now, loaded, schedVars, unloadedAt,
                  ops, schedOps, normVars, hung, dataVars, restVars, inFlight,
                  disk, mutations, snapshots, hottest>>

\* ---------------------------------------------------------- specifications

\* The plugin's state right after onload at time 0, the store apart.
InitHost(s) ==
   /\ settings = s
   /\ now = 0
   /\ loaded = TRUE
   /\ decayIntervalId = 1
   /\ lastDecayTime = 0
   /\ timers = MapSet(<<>>, 1, [due |-> IntervalMs(s), interval |-> IntervalMs(s)])
   /\ nextTimerId = 2
   /\ lastOp = Op("load", NoFile, 0)
   /\ cyclesApplied = 0
   /\ startedAt = 0
   /\ startedInterval = s.decayInterval
   /\ unloadedAt = NULL
   /\ ops = 0
   /\ schedOps = 0
   /\ hung = FALSE
   /\ isDirty = FALSE /\ saveTimeout = FALSE /\ saving = FALSE
   /\ saveFailed = FALSE
   /\ levelA = NoLevel /\ levelB = NoLevel
   /\ currentStateBackup = NoBackup
   /\ bulk = NoBulk
   /\ inFlight = <<>>
   /\ disk = NoWrite
   /\ mutations = 0
   /\ snapshots = <<>>
   /\ hottest = NotAsked
   /\ importStats = NoStats

\* The state right after onload at time 0 on an empty store.
InitPlugin(s) ==
   /\ InitHost(s)
   /\ heatMap = <<>>
   /\ lastAccessedFile = NoFile

\* The heat engine under a running scheduler: usage events, store operations,
\* the clock and the periodic decay tick.
InitialSettings ==
   { DefaultSettings(1, 5, 50, TRUE, TRUE),
     DefaultSettings(1, 60, 95, FALSE, TRUE) }

Init ==
   /\ \E s \in InitialSettings : InitPlugin(s)
   /\ rawA = 0 /\ rawB = 0 /\ outA = NULL /\ outB = NULL

Next ==
   \/ \E p \in Paths : OnFileAccess(p)
   \/ \E p \in Paths : OnFileEdit(p)
   \/ \E p \in Paths : OnFileClose(p)
   \/ \E p \in Paths, f \in BOOLEAN : SetFavorite(p, f)
   \/ \E p \in Paths : ResetFileHeat(p)
   \/ RecalculateAllHeat
   \/ Advance(MaxMinutes)
   \/ \E id \in 1..MaxTimers : TimerFire(id)

Spec == Init /\ [][Next]_vars

\* The decay scheduler and the plugin lifecycle: start, stop, updateSettings,
\* onunload and onload in any order, over a store that favoriting one file
\* heats (decay of favorites is not paused).
InitScheduler ==
   /\ InitPlugin(DefaultSettings(2, 5, 50, FALSE, TRUE))
   /\ rawA = 0 /\ rawB = 0 /\ outA = NULL /\ outB = NULL

\* The heating event of the scheduler's specification.
Heat ==
   /\ ops < MaxHeatOps
   /\ SetFavorite("a", TRUE)

NextScheduler ==
   \/ Heat
   \/ Advance(MaxSchedMinutes)
   \/ \E id \in 1..MaxTimers : TimerFire(id)
   \/ Start
   \/ Stop
   \/ \E i \in DecayIntervals : UpdateSettings(i)
   \/ Unload
   \/ Load

SpecScheduler == InitScheduler /\ [][NextScheduler]_vars

\* The decay intervals of a data file that holds a zero.
ZeroIntervals == {0, 1}

\* The scheduler and the lifecycle under a decay interval of 0 minutes, as
\* loadSettings takes it from the data file: setInterval(callback, 0) fires at
\* once and again, up to MaxCycles times in all.
BoundedTimerFire(id) ==
   /\ cyclesApplied < MaxCycles
   /\ TimerFire(id)

InitZeroInterval ==
   /\ InitPlugin(DefaultSettings(0, 5, 50, FALSE, TRUE))
   /\ rawA = 0 /\ rawB = 0 /\ outA = NULL /\ outB = NULL

NextZeroInterval ==
   \/ Heat
   \/ Advance(MaxSchedMinutes)
   \/ \E id \in 1..MaxTimers : BoundedTimerFire(id)
   \/ Start
   \/ Stop
   \/ \E i \in ZeroIntervals : UpdateSettings(i)
   \/ Unload
   \/ Load

SpecZeroInterval == InitZeroInterval /\ [][NextZeroInterval]_vars

\* normalizeHeat on its own: two raw values, no further apart than MaxDelta.
InitNormalize ==
   /\ InitPlugin(DefaultSettings(2, 5, 50, TRUE, TRUE))
   /\ rawA \in (0 - Fx(2))..Fx(MaxRaw)
   /\ rawB \in rawA..(rawA + MaxDelta)
   /\ outA = NULL /\ outB = NULL

NextNormalize == Normalize

SpecNormalize == InitNormalize /\ [][NextNormalize]_vars

\* Decay and persistence: ticks and catch-up mark the data store dirty and
\* start saves, which succeed or fail at any later moment.
InitPersistence ==
   /\ InitPlugin(DefaultSettings(1, 5, 50, FALSE, TRUE))
   /\ rawA = 0 /\ rawB = 0 /\ outA = NULL /\ outB = NULL

NextPersistence ==
   \/ Heat
   \/ Advance(MaxMinutes)
   \/ \E id \in 1..MaxTimers : TimerFire(id)
   \/ Start
   \/ Stop
   \/ \E immediate \in BOOLEAN, fails \in BOOLEAN : PerformSave(immediate, fails)

SpecPersistence == InitPersistence /\ [][NextPersistence]_vars

\* Replacing the store as a whole (loading a snapshot, restoring the current
\* state, a replace-import, loading the data file) among edits, decay ticks
\* and saves.
InitBulk ==
   /\ InitPlugin(DefaultSettings(1, 5, 50, FALSE, TRUE))
   /\ rawA = 0 /\ rawB = 0 /\ outA = NULL /\ outB = NULL

NextBulk ==
   \/ \E p \in Paths : OnFileEdit(p)
   \/ Advance(MaxMinutes)
   \/ \E id \in 1..MaxTimers : TimerFire(id)
   \/ \E fails \in BOOLEAN : PerformSave(FALSE, fails)
   \/ \E i \in SavedIds : LoadSnapshot(SavedStore(i))
   \/ RestoreCurrentState
   \/ \E i \in SavedIds : ReplaceImport(SavedStore(i))
   \/ \E i \in SavedIds : LoadData(SavedStore(i))
   \/ \E p \in Paths : BulkSet(p)
   \/ BulkEnd

SpecBulk == InitBulk /\ [][NextBulk]_vars

\* getHeatLevel on its own: two heat scores from 0 to 100, no further apart
\* than MaxDelta.
InitHeatLevel ==
   /\ InitPlugin(DefaultSettings(2, 5, 50, TRUE, TRUE))
   /\ rawA \in 0..Fx(100)
   /\ rawB \in rawA..Min(Fx(100), rawA + MaxDelta)
   /\ outA = NULL /\ outB = NULL

NextHeatLevel == Classify

SpecHeatLevel == InitHeatLevel /\ [][NextHeatLevel]_vars

\* Favorites and decay: pinning by setFavorite and by the views' batch
\* operation, the manual boost changed in the settings tab, edits, resets and
\* the periodic decay tick.
FavoriteSettings ==
   { DefaultSettings(1, 5, 50, TRUE, TRUE),
     DefaultSettings(1, 5, 80, FALSE, TRUE) }

InitFavorites ==
   /\ \E s \in FavoriteSettings : InitPlugin(s)
   /\ rawA = 0 /\ rawB = 0 /\ outA = NULL /\ outB = NULL

NextFavorites ==
   \/ \E p \in Paths : OnFileEdit(p)
   \/ \E p \in Paths, f \in BOOLEAN : SetFavorite(p, f)
   \/ \E sel \in SUBSET Paths, f \in BOOLEAN : BatchFavorite(sel, f)
   \/ \E p \in Paths : ResetFileHeat(p)
   \/ \E v \in BoostValues : SaveSettings(v)
   \/ Advance(MaxMinutes)
   \/ \E id \in 1..MaxTimers : TimerFire(id)

SpecFavorites == InitFavorites /\ [][NextFavorites]_vars

\* Succession tracking: accesses and edits of two files over a span longer
\* than the quick-return window, the decay tick being further away than that.
InitSuccession ==
   /\ InitPlugin(DefaultSettings(30, 5, 50, TRUE, TRUE))
   /\ rawA = 0 /\ rawB = 0 /\ outA = NULL /\ outB = NULL

NextSuccession ==
   \/ \E p \in Paths : OnFileAccess(p)
   \/ \E p \in Paths : OnFileEdit(p)
   \/ Advance(MaxSuccMinutes)

SpecSuccession == InitSuccession /\ [][NextSuccession]_vars

\* The store after path "a" was created by an edit and edited n times in all.
RECURSIVE EditedTimes(_)
EditedTimes(n) ==
   IF n = 0 THEN <<>> ELSE OnFileEditStore(EditedTimes(n - 1), "a", 0)

\* Quick returns to a file that has been worked on: "a" was edited up to
\* MaxEdits times, and is now opened and edited again while the clock runs
\* past the quick-return window.
InitQuickReturn ==
   /\ InitHost(DefaultSettings(30, 5, 50, TRUE, TRUE))
   /\ \E n \in 0..MaxEdits : heatMap = EditedTimes(n)
   /\ lastAccessedFile = NoFile
   /\ rawA = 0 /\ rawB = 0 /\ outA = NULL /\ outB = NULL

NextQuickReturn ==
   \/ \E p \in Paths : OnFileAccess(p)
   \/ \E p \in Paths : OnFileEdit(p)
   \/ Advance(MaxSuccMinutes)

SpecQuickReturn == InitQuickReturn /\ [][NextQuickReturn]_vars

\* Settings as loadSettings takes them from a data file that holds numbers the
\* settings tab would not produce: a negative decay rate, a negative
\* differential multiplier, negative increments, a negative manual boost.
OutOfRangeSettings ==
   { DefaultSettings(1, 0 - 5, 80, FALSE, TRUE),
     [DefaultSettings(1, 5, 80, FALSE, TRUE) EXCEPT
         !.differentialMultiplier = 0 - 2],
     [DefaultSettings(1, 5, 80, FALSE, TRUE) EXCEPT
         !.heatIncrements.fileOpen = 0 - 5,
         !.heatIncrements.fileEdit = 0 - 10,
         !.heatIncrements.quickReturn = 0 - 3],
     DefaultSettings(1, 5, 0 - 50, FALSE, TRUE) }

\* The heat engine and its scheduler under such settings.
InitOutOfRange ==
   /\ \E s \in OutOfRangeSettings : InitPlugin(s)
   /\ rawA = 0 /\ rawB = 0 /\ outA = NULL /\ outB = NULL

SpecOutOfRange == InitOutOfRange /\ [][Next]_vars

\* Usage events on favorites: files are opened, edited, closed and made
\* favorites with the smallest boost of the settings tab, the decay tick being
\* further away than the clock runs.
InitFavoriteEvents ==
   /\ InitPlugin(DefaultSettings(30, 5, 10, TRUE, TRUE))
   /\ rawA = 0 /\ rawB = 0 /\ outA = NULL /\ outB = NULL

NextFavoriteEvents ==
   \/ \E p \in Paths : OnFileAccess(p)
   \/ \E p \in Paths : OnFileEdit(p)
   \/ \E p \in Paths : OnFileClose(p)
   \/ \E p \in Paths : SetFavorite(p, TRUE)
   \/ Advance(MaxMinutes)

SpecFavoriteEvents == InitFavoriteEvents /\ [][NextFavoriteEvents]_vars

\* Files that are opened, dropped from the store (singly or by clearing it)
\* and opened again, within and beyond the quick-return window.
InitRemoval ==
   /\ InitPlugin(DefaultSettings(30, 5, 50, TRUE, TRUE))
   /\ rawA = 0 /\ rawB = 0 /\ outA = NULL /\ outB = NULL

NextRemoval ==
   \/ \E p \in Paths : OnFileAccess(p)
   \/ \E p \in Paths : RemoveFile(p)
   \/ Clear
   \/ Advance(MaxSuccMinutes)

SpecRemoval == InitRemoval /\ [][NextRemoval]_vars

\* ------------------------------------------------------------------ claims

UsageOps == {"onFileAccess", "onFileEdit", "onFileClose", "setFavorite"}

\* The step is the usage event or store operation lastOp' names.
EngineStepTaken == ops' = ops + 1

\* The step is the scheduler or lifecycle call lastOp' names.
SchedStepTaken == schedOps' = schedOps + 1

\* The step is a periodic decay tick.
TickTaken == lastOp'.op = "performDecay" /\ cyclesApplied' = cyclesApplied + 1

\* C1: in every state reached from the empty store by onFileAccess, onFileEdit,
\* onFileClose, setFavorite, resetFileHeat, recalculateAllHeat and decay ticks,
\* under non-negative settings, every record's heatScore is in [0, 100].
HeatScoreInRange ==
   \A p \in DOMAIN heatMap :
      /\ heatMap[p].heatScore >= 0
      /\ heatMap[p].heatScore <= Fx(100)

\* A usage event has just driven a record to the cap of 100.
HeatScoreAtCap ==
   /\ lastOp.op \in UsageOps
   /\ lastOp.path \in DOMAIN heatMap
   /\ heatMap[lastOp.path].heatScore = Fx(100)

\* C2: on a plugin start after being unloaded for T, with catch-up enabled,
\* start() applies floor(T / decayInterval) decay cycles.
StartupCatchesUpOfflineTime ==
   ( /\ lastOp.op = "load"
     /\ unloadedAt # NULL
     /\ settings.calculateDecayWhileClosed )
   => lastOp.cycles = (now - unloadedAt) \div (settings.decayInterval * 60 * 1000)

\* C3: whatever stop() and start() calls were made on a scheduler, whenever it
\* is running with no tick due it has applied as many decay cycles as a
\* scheduler running continuously since its first start() (the decay interval
\* not having been changed, catch-up enabled, its own timer the only live one).
ContinuousEquivalent ==
   ( /\ loaded
     /\ decayIntervalId # NoTimer
     /\ settings.calculateDecayWhileClosed
     /\ startedInterval = settings.decayInterval
     /\ DOMAIN timers = {decayIntervalId}
     /\ timers[decayIntervalId].due > now )
   => cyclesApplied = (now - startedAt) \div (startedInterval * 60 * 1000)

\* C4: stop() leaves lastDecayTime unchanged.
StopPreservesLastDecayTime ==
   [][(lastOp'.op = "stop" /\ SchedStepTaken) => lastDecayTime' = lastDecayTime]_vars

\* C5: no periodic tick fires while the scheduler is stopped, that is between
\* a stop() and the next start() (decayIntervalId is null).
NoTickWhileStopped ==
   ~(lastOp.op = "performDecay" /\ decayIntervalId = NoTimer)

\* k decay ticks in sequence, at time t.
RECURSIVE TickTimes(_, _, _)
TickTimes(hm, k, t) ==
   IF k <= 0 THEN hm ELSE TickTimes(PerformDecayStore(hm, t), k - 1, t)

\* C6: with catch-up enabled, start() at time now with lastDecayTime = L runs
\* performDecay exactly k = floor((now - L) / intervalMs) times when k > 0 and
\* not at all otherwise, sets lastDecayTime to now, and leaves the store that
\* k ticks in sequence leave.
CatchUpReplaysTicks ==
   [][(lastOp'.op = "start" /\ SchedStepTaken /\ settings.calculateDecayWhileClosed)
        => LET k == (now - lastDecayTime) \div (settings.decayInterval * 60 * 1000)
           IN /\ lastOp'.cycles = IF k > 0 THEN k ELSE 0
              /\ cyclesApplied' = cyclesApplied + lastOp'.cycles
              /\ lastDecayTime' = now
              /\ heatMap' = TickTimes(heatMap, k, now)]_vars

\* start() has just replayed two missed cycles over a heated store.
CatchUpReplayedTwo ==
   /\ lastOp.op = "start"
   /\ lastOp.cycles = 2
   /\ settings.calculateDecayWhileClosed
   /\ \E p \in DOMAIN heatMap :
         heatMap[p].heatScore > 0 /\ heatMap[p].lastUpdated = now

\* C7: normalizeHeat is monotonic: 0 <= a <= b implies
\* normalizeHeat(a) <= normalizeHeat(b).
NormalizeMonotonic ==
   (outA # NULL /\ rawA >= 0 /\ rawA <= rawB) => outA <= outB

\* C8: no onFileAccess, onFileEdit, onFileClose or setFavorite(path, true)
\* leaves the record's heatScore lower than it was.
UsageNeverLowersHeat ==
   [][(EngineStepTaken /\ lastOp'.op \in UsageOps /\ lastOp'.path \in DOMAIN heatMap)
        => heatMap'[lastOp'.path].heatScore >= heatMap[lastOp'.path].heatScore]_vars

\* C9: normalizeHeat(raw) is 0 for raw <= 0, raw for 0 < raw < 100 and
\* min(100, 90 + 10 * log10(raw - 100 + 1)) for raw >= 100; normalizeHeat(0) = 0
\* and normalizeHeat(150) = 100.
NormalizePiecewise ==
   outA # NULL =>
      /\ rawA <= 0 => outA = 0
      /\ (0 < rawA /\ rawA < 100 * HeatScale) => outA = rawA
      /\ rawA >= 100 * HeatScale =>
            outA = Min(100 * HeatScale,
                       90 * HeatScale
                          + (Log10Centi(rawA - 100 * HeatScale + HeatScale, HeatScale)
                               * HeatScale) \div 10)
      /\ rawA = 0 => outA = 0
      /\ rawA = 150 * HeatScale => outA = 100 * HeatScale

\* normalizeHeat(150) has been computed, and is 100.
NormalizeOf150 ==
   rawA = 150 * HeatScale /\ outA = 100 * HeatScale

\* C10: in every reachable state, a decay tick, and a second tick after
\* it, leaves every record's heatScore no higher than before it and not below
\* 0, and so does decreaseHeat with any non-negative percentage, also when rate
\* times multiplier exceeds 100%.
DecayPercentages == {0, 5, 50, 100, 250}

DecayNeverRaises ==
   LET t1 == PerformDecayStore(heatMap, now)
       t2 == PerformDecayStore(t1, now)
   IN  \A p \in DOMAIN heatMap :
          /\ t1[p].heatScore \in 0..heatMap[p].heatScore
          /\ t2[p].heatScore \in 0..t1[p].heatScore
          /\ \A pct \in DecayPercentages :
                DecreaseHeat(heatMap, p, pct, now)[p].heatScore
                   \in 0..heatMap[p].heatScore

\* A tick at more than 100% has just taken a heated record to 0.
DecayedToZero ==
   /\ lastOp.op = "performDecay"
   /\ settings.decayRate * settings.differentialMultiplier > 100
   /\ \E p \in DOMAIN heatMap :
         /\ heatMap[p].heatScore = 0
         /\ heatMap[p].lastUpdated = now
         /\ heatMap[p].metrics.editCount > 0

\* C11: decreaseHeat(path, 0) is a no-op: for a present or absent path the
\* store after the call is the store before it.
DecreaseByZeroIsNoOp ==
   \A p \in Paths : DecreaseHeat(heatMap, p, 0, now) = heatMap

\* C12: one decay tick applies the differential multiplier exactly once to a
\* record above 70 that decays: it removes heatScore * decayRate * multiplier
\* / 100 (8 from 80 at rate 5 and multiplier 2, leaving 72).
DifferentialMultiplierOnce ==
   [][TickTaken =>
        \A p \in DOMAIN heatMap :
           LET h == heatMap[p].heatScore IN
           ( /\ h > Fx(70)
             /\ settings.differentialDecay
             /\ ~(heatMap[p].metrics.isFavorite /\ settings.pauseDecayForFavorites) )
           => heatMap'[p].heatScore =
                 h - (h * settings.decayRate * settings.differentialMultiplier)
                        \div 100]_vars

\* C13: while pauseDecayForFavorites is enabled, no decreaseHeat call, decay
\* tick or catch-up replay (here of two missed cycles) changes the heatScore of
\* a favorite record.
PausedFavoritesKeepHeat ==
   settings.pauseDecayForFavorites =>
      LET ticked == PerformDecayStore(heatMap, now)
          behind == [Scheduler EXCEPT
                       !.lastDecayTime = now - 2 * IntervalMs(settings)]
          caughtUp == CalculateMissedDecay(behind, settings, now).heatMap
      IN \A p \in DOMAIN heatMap :
            heatMap[p].metrics.isFavorite =>
               /\ ticked[p].heatScore = heatMap[p].heatScore
               /\ caughtUp[p].heatScore = heatMap[p].heatScore
               /\ \A pct \in DecayPercentages :
                     DecreaseHeat(heatMap, p, pct, now)[p].heatScore
                        = heatMap[p].heatScore

\* A decay tick has just run over a heated favorite whose decay is paused.
PausedFavoriteSurvivedTick ==
   /\ lastOp.op = "performDecay"
   /\ settings.pauseDecayForFavorites
   /\ \E p \in DOMAIN heatMap :
         /\ heatMap[p].metrics.isFavorite
         /\ heatMap[p].heatScore > 0
         /\ heatMap[p].lastUpdated < now

\* C14: setFavorite(path, true) sets heatScore to normalizeHeat(previous
\* heatScore + manualBoostValue), isFavorite to true and favoriteBoost to
\* manualBoostValue, on a record it creates first if the path is untracked.
SetFavoriteBoostsAtOnce ==
   [][(EngineStepTaken /\ lastOp'.op = "setFavorite") =>
        LET p == lastOp'.path
            previous == IF p \in DOMAIN heatMap
                        THEN heatMap[p]
                        ELSE InitialHeatData(p, now)
            boost == Fx(settings.manualBoostValue)
        IN /\ p \in DOMAIN heatMap'
           /\ heatMap'[p] =
                 [previous EXCEPT
                    !.heatScore = NormalizeHeat(previous.heatScore + boost),
                    !.metrics.isFavorite = TRUE,
                    !.metrics.favoriteBoost = boost,
                    !.lastUpdated = now]]_vars

\* setFavorite(path, true) has just created the record of an untracked path.
SetFavoriteCreatedRecord ==
   /\ lastOp.op = "setFavorite"
   /\ now > 0
   /\ lastOp.path \in DOMAIN heatMap
   /\ heatMap[lastOp.path].firstTracked = now
   /\ heatMap[lastOp.path].metrics.isFavorite
   /\ heatMap[lastOp.path].heatScore = Fx(settings.manualBoostValue)

\* The amounts increaseHeat is called with (fileOpen, fileEdit, quickReturn).
IncreaseAmounts == {3, 5, 10}

\* C15: setFavorite(path, false) leaves the accumulated heatScore as it is and
\* removes the boost term (isFavorite false, favoriteBoost 0), and every later
\* increaseHeat(path, a) on a record that is not a favorite adds exactly a
\* before normalization.
UnfavoriteStopsBoosting ==
   /\ [][(EngineStepTaken /\ lastOp'.op = "unsetFavorite"
            /\ lastOp'.path \in DOMAIN heatMap) =>
           LET p == lastOp'.path
           IN /\ heatMap'[p].heatScore = heatMap[p].heatScore
              /\ ~heatMap'[p].metrics.isFavorite
              /\ heatMap'[p].metrics.favoriteBoost = 0]_vars
   /\ [](\A p \in DOMAIN heatMap :
            ~heatMap[p].metrics.isFavorite =>
               \A a \in IncreaseAmounts :
                  IncreaseHeat(heatMap, p, Fx(a), now)[p].heatScore
                     = NormalizeHeat(heatMap[p].heatScore + Fx(a)))

\* setFavorite(path, false) has just unpinned a record that keeps the heat its
\* pinning gave it.
UnfavoritedKeepsHeat ==
   /\ lastOp.op = "unsetFavorite"
   /\ lastOp.path \in DOMAIN heatMap
   /\ ~heatMap[lastOp.path].metrics.isFavorite
   /\ heatMap[lastOp.path].metrics.favoriteBoost = 0
   /\ heatMap[lastOp.path].heatScore >= Fx(settings.manualBoostValue)

\* C16: in every reachable state every record's favoriteBoost is the configured
\* manualBoostValue if isFavorite is true, and 0 otherwise.
FavoriteBoostMatchesSetting ==
   \A p \in DOMAIN heatMap :
      heatMap[p].metrics.favoriteBoost =
         IF heatMap[p].metrics.isFavorite THEN Fx(settings.manualBoostValue) ELSE 0

\* C17: a batch favorite leaves each selected tracked file as setFavorite(path,
\* true) leaves it, a favorite with the manual boost added to its heat, and
\* the other files as they were.
BatchFavoriteIsSetFavorite ==
   [][(EngineStepTaken /\ lastOp'.op = "batchFavorite") =>
        \E selectedFiles \in SUBSET Paths \ {{}} :
           \A p \in DOMAIN heatMap :
              IF p \in selectedFiles
              THEN /\ heatMap'[p].metrics.isFavorite
                   /\ heatMap'[p].heatScore
                         = SetFavoriteStore(heatMap, p, TRUE, now)[p].heatScore
              ELSE heatMap'[p] = heatMap[p]]_vars

\* C18: onFileAccess sets sessionStart to its timestamp only if it was null,
\* onFileClose sets it to null, and no other step changes it (a record created
\* by another operation starts with null).
SessionStartTracksOpen ==
   [][\A p \in DOMAIN heatMap' :
         LET before == IF p \in DOMAIN heatMap
                       THEN heatMap[p].metrics.sessionStart
                       ELSE NULL
             after == heatMap'[p].metrics.sessionStart
             called(name) == EngineStepTaken /\ lastOp'.op = name /\ lastOp'.path = p
         IN IF called("onFileAccess")
            THEN after = (IF before = NULL THEN now ELSE before)
            ELSE IF called("onFileClose")
                 THEN after = NULL
                 ELSE after = before]_vars

\* A second onFileAccess without a close in between has kept the earlier
\* sessionStart.
SecondAccessKeptSession ==
   /\ lastOp.op = "onFileAccess"
   /\ lastOp.path \in DOMAIN heatMap
   /\ heatMap[lastOp.path].metrics.accessCount >= 2
   /\ heatMap[lastOp.path].metrics.lastAccessed = now
   /\ heatMap[lastOp.path].metrics.sessionStart # NULL
   /\ heatMap[lastOp.path].metrics.sessionStart < now

\* C19: an onFileAccess(path) within the quick-return window (the last accessed
\* file is path and now - lastAccessed < quickReturnWindow) raises
\* successionCount by exactly 1; one whose gap exceeds the window sets it to 0,
\* whatever file was accessed before.
SuccessionFollowsWindow ==
   [][(EngineStepTaken /\ lastOp'.op = "onFileAccess") =>
        LET p == lastOp'.path
            before == IF p \in DOMAIN heatMap
                      THEN heatMap[p].metrics
                      ELSE InitialHeatData(p, now).metrics
            gap == now - before.lastAccessed
            window == settings.heatIncrements.quickReturnWindow
            after == heatMap'[p].metrics.successionCount
        IN /\ (lastAccessedFile = p /\ gap < window)
                 => after = before.successionCount + 1
           /\ gap > window => after = 0]_vars

\* An access after the window has just reset a succession that a quick return
\* had raised (three accesses of the file, the second a quick return).
SuccessionResetAfterWindow ==
   /\ lastOp.op = "onFileAccess"
   /\ lastOp.path \in DOMAIN heatMap
   /\ heatMap[lastOp.path].metrics.accessCount = 3
   /\ heatMap[lastOp.path].metrics.successionCount = 0
   /\ heatMap[lastOp.path].metrics.lastAccessed = now
   /\ now > settings.heatIncrements.quickReturnWindow

\* C20: no usage event, store operation, decay tick, decreaseHeat call or
\* catch-up replay removes a record: the set of tracked paths never loses an
\* element.
RecordsNeverDeleted ==
   /\ [][DOMAIN heatMap \subseteq DOMAIN heatMap']_vars
   /\ [](LET behind == [Scheduler EXCEPT
                          !.lastDecayTime = now - 2 * IntervalMs(settings)]
         IN /\ DOMAIN CalculateMissedDecay(behind, settings, now).heatMap
                  = DOMAIN heatMap
            /\ \A p \in Paths :
                  DOMAIN DecreaseHeat(heatMap, p, settings.decayRate, now)
                     = DOMAIN heatMap)

\* resetFileHeat has just zeroed a record that stays tracked.
ResetKeptRecord ==
   /\ lastOp.op = "resetFileHeat"
   /\ lastOp.path \in DOMAIN heatMap
   /\ heatMap[lastOp.path].heatScore = 0
   /\ heatMap[lastOp.path].lastUpdated = now
   /\ heatMap[lastOp.path].firstTracked < now

\* C21: a record that is not found is a normal outcome.  getHeatData of an
\* untracked path returns undefined and creates nothing; onFileAccess,
\* onFileEdit, increaseHeat and setFavorite on an untracked path create exactly
\* one record under that path, with heatScore 0, zero counters, no session and
\* isFavorite false, and then apply their effect to it.
UntrackedIsCreatedFresh ==
   /\ [][ (EngineStepTaken /\ lastOp'.path \in Paths \ DOMAIN heatMap
              /\ lastOp'.op \in {"onFileAccess", "onFileEdit",
                                 "setFavorite", "unsetFavorite"})
          => LET p == lastOp'.path
                 fresh ==
                    [ path |-> p, heatScore |-> 0,
                      metrics |->
                         [accessCount |-> 0, lastAccessed |-> now,
                          successionCount |-> 0, successionTimestamp |-> 0,
                          totalDuration |-> 0, sessionStart |-> NULL,
                          editCount |-> 0, lastEdited |-> 0,
                          isFavorite |-> FALSE, favoriteBoost |-> 0],
                      firstTracked |-> now, lastUpdated |-> now ]
                 seeded == MapSet(heatMap, p, fresh)
             IN /\ DOMAIN heatMap' = DOMAIN heatMap \cup {p}
                /\ \A q \in DOMAIN heatMap : heatMap'[q] = heatMap[q]
                /\ heatMap' =
                      CASE lastOp'.op = "onFileAccess" ->
                              OnFileAccessStore(seeded, p, now)
                        [] lastOp'.op = "onFileEdit" ->
                              OnFileEditStore(seeded, p, now)
                        [] lastOp'.op = "setFavorite" ->
                              SetFavoriteStore(seeded, p, TRUE, now)
                        [] lastOp'.op = "unsetFavorite" ->
                              SetFavoriteStore(seeded, p, FALSE, now) ]_vars
   /\ [](\A p \in Paths \ DOMAIN heatMap :
            /\ GetHeatData(heatMap, p) = Undefined
            /\ \A amount \in IncreaseAmounts :
                  LET increased == IncreaseHeat(heatMap, p, Fx(amount), now)
                  IN /\ DOMAIN increased = DOMAIN heatMap \cup {p}
                     /\ increased[p].heatScore = Fx(amount)
                     /\ increased[p].metrics.accessCount = 0
                     /\ increased[p].metrics.editCount = 0
                     /\ increased[p].metrics.successionCount = 0
                     /\ increased[p].metrics.totalDuration = 0
                     /\ increased[p].metrics.sessionStart = NULL
                     /\ increased[p].metrics.isFavorite = FALSE)

\* onFileEdit has just created the record of a path while another path was
\* already tracked: one edit counted, nothing else.
EditCreatedSecondRecord ==
   /\ lastOp.op = "onFileEdit"
   /\ DOMAIN heatMap = Paths
   /\ heatMap[lastOp.path].firstTracked = now
   /\ heatMap[lastOp.path].metrics.editCount = 1
   /\ heatMap[lastOp.path].metrics.accessCount = 0
   /\ heatMap[lastOp.path].heatScore = Fx(settings.heatIncrements.fileEdit)
   /\ \E q \in Paths : heatMap[q].firstTracked < now

\* C27: resetFileHeat on a tracked path sets heatScore, accessCount, editCount,
\* totalDuration and successionCount to 0 and keeps isFavorite, and a
\* favorite's favoriteBoost; on an untracked path it changes nothing and
\* creates no record.
ResetKeepsFavorite ==
   [][ (EngineStepTaken /\ lastOp'.op = "resetFileHeat")
       => LET p == lastOp'.path
          IN IF p \notin DOMAIN heatMap
             THEN heatMap' = heatMap
             ELSE /\ DOMAIN heatMap' = DOMAIN heatMap
                  /\ \A q \in DOMAIN heatMap \ {p} : heatMap'[q] = heatMap[q]
                  /\ heatMap'[p].heatScore = 0
                  /\ heatMap'[p].metrics.accessCount = 0
                  /\ heatMap'[p].metrics.editCount = 0
                  /\ heatMap'[p].metrics.totalDuration = 0
                  /\ heatMap'[p].metrics.successionCount = 0
                  /\ heatMap'[p].metrics.isFavorite = heatMap[p].metrics.isFavorite
                  /\ heatMap[p].metrics.isFavorite
                        => heatMap'[p].metrics.favoriteBoost
                              = heatMap[p].metrics.favoriteBoost ]_vars

\* resetFileHeat has just zeroed an edited favorite, which is still a favorite
\* with its boost.
ResetFavoriteKeptBoost ==
   /\ lastOp.op = "resetFileHeat"
   /\ lastOp.path \in DOMAIN heatMap
   /\ heatMap[lastOp.path].heatScore = 0
   /\ heatMap[lastOp.path].metrics.isFavorite
   /\ heatMap[lastOp.path].metrics.favoriteBoost = Fx(settings.manualBoostValue)
   /\ heatMap[lastOp.path].metrics.lastEdited > 0

\* What onFileClose(p) at time t must make of the store before: nothing when p
\* is untracked or has no session; otherwise the session's length added to
\* totalDuration, sessionStart cleared, and a bonus of at most 10 points of raw
\* heat added (with the favorite's boost, as every increase) when it is positive.
CloseEffect(before, after, p, t) ==
   IF p \notin DOMAIN before THEN after = before
   ELSE IF before[p].metrics.sessionStart = NULL THEN after = before
   ELSE LET old == before[p]
            sessionDuration == t - old.metrics.sessionStart
            bonus == DurationHeat(sessionDuration)
        IN /\ DOMAIN after = DOMAIN before
           /\ \A q \in DOMAIN before \ {p} : after[q] = before[q]
           /\ after[p].metrics =
                 [old.metrics EXCEPT !.totalDuration = @ + sessionDuration,
                                     !.sessionStart = NULL]
           /\ bonus \in 0..Fx(10)
           /\ after[p].heatScore =
                 IF bonus > 0
                 THEN NormalizeHeat(old.heatScore + bonus
                                    + IF old.metrics.isFavorite
                                      THEN old.metrics.favoriteBoost ELSE 0)
                 ELSE old.heatScore

\* How long after now a session is closed: at once, when the bonus reaches its
\* cap, and far beyond.
CloseDelays == {0, 99 * StepMs, 1000 * StepMs}

\* C28: onFileClose is a no-op when the record is absent or its sessionStart is
\* null; otherwise it adds now - sessionStart to totalDuration, clears
\* sessionStart and adds a duration bonus of at most 10 raw heat, so that a
\* second onFileClose without an onFileAccess in between changes nothing.
CloseEndsSession ==
   /\ [][ (EngineStepTaken /\ lastOp'.op = "onFileClose")
          => /\ CloseEffect(heatMap, heatMap', lastOp'.path, now)
             /\ OnFileCloseStore(heatMap', lastOp'.path, now) = heatMap' ]_vars
   /\ [](\A p \in Paths : \A delay \in CloseDelays :
            LET closed == OnFileCloseStore(heatMap, p, now + delay)
            IN /\ CloseEffect(heatMap, closed, p, now + delay)
               /\ OnFileCloseStore(closed, p, now + delay + StepMs) = closed)

\* onFileClose has just ended a session of one minute: the time is in
\* totalDuration, the session is cleared and the heat rose by the bonus.
ClosedOneMinuteSession ==
   /\ lastOp.op = "onFileClose"
   /\ lastOp.path \in DOMAIN heatMap
   /\ heatMap[lastOp.path].metrics.sessionStart = NULL
   /\ heatMap[lastOp.path].metrics.totalDuration = StepMs
   /\ heatMap[lastOp.path].metrics.accessCount = 1
   /\ heatMap[lastOp.path].heatScore
         = Fx(settings.heatIncrements.fileOpen) + DurationHeat(StepMs)
   /\ DurationHeat(StepMs) > 0

\* C29: in every store state each composite sub-score and the composite score
\* is a number from 0 to 100; a sub-score whose maximum (accessCount,
\* totalDuration or editCount over all records) is 0 is 0; and the composite
\* score of an untracked path is 0.
CompositeScoresInRange ==
   LET maxAccessCount == MaxOver(heatMap, "accessCount")
       maxDuration == MaxOver(heatMap, "totalDuration")
       maxEditCount == MaxOver(heatMap, "editCount")
   IN \A p \in Paths :
         /\ CalculateCompositeScore(heatMap, p, now) \in 0..Fx(100)
         /\ p \notin DOMAIN heatMap => CalculateCompositeScore(heatMap, p, now) = 0
         /\ p \in DOMAIN heatMap =>
               LET metrics == heatMap[p].metrics
               IN /\ CalculateFrequencyScore(metrics, maxAccessCount) \in 0..Fx(100)
                  /\ CalculateRecencyScore(metrics, now) \in 0..Fx(100)
                  /\ CalculateSuccessionScore(metrics) \in 0..Fx(100)
                  /\ CalculateDurationScore(metrics, maxDuration) \in 0..Fx(100)
                  /\ CalculateEditScore(metrics, maxEditCount) \in 0..Fx(100)
                  /\ maxAccessCount = 0
                        => CalculateFrequencyScore(metrics, maxAccessCount) = 0
                  /\ maxDuration = 0
                        => CalculateDurationScore(metrics, maxDuration) = 0
                  /\ maxEditCount = 0
                        => CalculateEditScore(metrics, maxEditCount) = 0

\* recalculateAllHeat has just scored a store in which files were opened and
\* edited but never closed: the largest totalDuration is 0, the largest edit
\* count is 1 and one record has no edit.
RecalculatedWithZeroDuration ==
   /\ lastOp.op = "recalculateAllHeat"
   /\ DOMAIN heatMap = Paths
   /\ MaxOver(heatMap, "totalDuration") = 0
   /\ MaxOver(heatMap, "editCount") = 1
   /\ \E p \in Paths :
         /\ heatMap[p].metrics.editCount = 0
         /\ heatMap[p].heatScore > 0

\* onFileAccess(p) in the current state is a quick return: p was the last file
\* accessed, less than quickReturnWindow ago.
IsQuickReturn(p) ==
   /\ lastAccessedFile = p
   /\ \/ p \notin DOMAIN heatMap
      \/ now - heatMap[p].metrics.lastAccessed
            < settings.heatIncrements.quickReturnWindow

\* The heat of p before an event (0 for a record about to be created).
PreviousHeat(p) == IF p \in DOMAIN heatMap THEN heatMap[p].heatScore ELSE 0

\* The step is an onFileAccess of a path that is not a favorite.
AccessOfNonFavorite ==
   /\ EngineStepTaken
   /\ lastOp'.op = "onFileAccess"
   /\ lastOp'.path \in DOMAIN heatMap => ~heatMap[lastOp'.path].metrics.isFavorite

OutOfRangeIsClamped ==
   /\ [](\A p \in DOMAIN heatMap : heatMap[p].heatScore \in 0..Fx(100))
   /\ [][ TickTaken
          => \A p \in DOMAIN heatMap :
                heatMap'[p].heatScore <= heatMap[p].heatScore ]_vars

\* C23: a decay interval of zero is clamped to a safe default rather than
\* hanging: with decayInterval = 0 and catch-up enabled, start() terminates
\* after a finite number of decay cycles and leaves the scheduler running.
ZeroIntervalStartReturns ==
   [][ (SchedStepTaken /\ lastOp'.op = "start" /\ settings.decayInterval = 0
           /\ settings.calculateDecayWhileClosed)
       => /\ ~hung'
          /\ decayIntervalId' # NoTimer
          /\ decayIntervalId' \in DOMAIN timers' ]_vars

\* The place of a heat level in the order cold < cool < warm < hot < critical
\* < blazing.
LevelRank(level) ==
   CASE level = "cold" -> 0
     [] level = "cool" -> 1
     [] level = "warm" -> 2
     [] level = "hot" -> 3
     [] level = "critical" -> 4
     [] level = "blazing" -> 5

SaveSettled ==
   /\ lastOp'.op \in {"saved", "saveFailed"}
   /\ saving # saving' \/ saveTimeout # saveTimeout'

\* C25: a failure of the save that a decay tick or a catch-up triggers neither
\* blocks nor rolls back the decay: performDecay has decayed the scores and
\* advanced lastDecayTime whatever becomes of the save, the end of a save,
\* failed or not, leaves the scores, lastDecayTime and the timer as they are,
\* and after a failed save the timer of a running scheduler is still armed.
SaveFailureKeepsDecay ==
   /\ [][ TickTaken
          => /\ heatMap' = PerformDecayStore(heatMap, now)
             /\ lastDecayTime' = now
             /\ isDirty'
             /\ decayIntervalId' = decayIntervalId
             /\ DOMAIN timers' = DOMAIN timers ]_vars
   /\ [][ SaveSettled => UNCHANGED <<heatMap, schedVars, hung>> ]_vars
   /\ [][ (SchedStepTaken /\ lastOp'.op = "start" /\ lastOp'.cycles > 0)
          => /\ lastDecayTime' = now
             /\ heatMap' = TickTimes(heatMap, lastOp'.cycles, now)
             /\ isDirty' /\ saving' ]_vars
   /\ [](saveFailed /\ loaded /\ decayIntervalId # NoTimer
            => /\ decayIntervalId \in DOMAIN timers
               /\ ~hung)

\* A decay tick has just run after an earlier save had failed, and decayed the
\* heat further.
TickAfterFailedSave ==
   /\ lastOp.op = "performDecay"
   /\ saveFailed
   /\ cyclesApplied >= 2
   /\ lastDecayTime = now
   /\ "a" \in DOMAIN heatMap
   /\ heatMap["a"].heatScore > 0
   /\ heatMap["a"].heatScore < Fx(settings.manualBoostValue)

\* C26: replacing the store as a whole is atomic for every other operation:
\* between the clearing of the old contents and the completion of the new ones
\* by a snapshot load, a restore of the current state or a replace-import, no
\* usage event, decay tick, save or other call runs (only the replacement's
\* own steps change anything but the clock), the store the replacement leaves
\* is exactly the incoming one, and loadData replaces the store in one step;
\* so whenever another operation runs, the store is not partially replaced.
BulkReplaceIsAtomic ==
   /\ [][ (bulk.phase # "idle" /\ bulk' = bulk)
          => UNCHANGED <<engineVars, settings, loaded, schedVars, lastOp,
                         unloadedAt, ops, schedOps, hung, dataVars,
                         saveFailed, currentStateBackup>> ]_vars
   /\ [][ (bulk.phase # "idle" /\ bulk'.phase = "idle")
          => heatMap' = bulk.incoming ]_vars
   /\ [][ (bulk.phase # "idle" /\ bulk' # bulk)
          => /\ DOMAIN heatMap' \subseteq DOMAIN bulk.incoming
             /\ \A p \in DOMAIN heatMap' : heatMap'[p] = bulk.incoming[p]
             /\ UNCHANGED <<lastAccessedFile, settings, schedVars, dataVars>> ]_vars
   /\ [][ (EngineStepTaken /\ lastOp'.op = "loadData")
          => \E i \in SavedIds : heatMap' = SavedStore(i) ]_vars
   /\ [](bulk.phase = "idle" /\ lastOp.op \in {"loadSnapshot", "restoreCurrentState",
                                               "replaceImport"}
            => heatMap = bulk.incoming)

\* A snapshot of two files has just replaced a store that held one edited
\* file, which is kept as the backup of the current state.
SnapshotReplacedStore ==
   /\ lastOp.op = "loadSnapshot"
   /\ bulk.phase = "idle"
   /\ DOMAIN heatMap = Paths
   /\ heatMap = bulk.incoming
   /\ currentStateBackup.present
   /\ DOMAIN currentStateBackup.data = {"a"}
   /\ currentStateBackup.data["a"].metrics.editCount = 2

\* C31: a usage event (onFileAccess, onFileEdit, onFileClose) on a favorite
\* adds favoriteBoost to the raw score at most once, a quick-return
\* onFileAccess included: the new heatScore is the old one (nothing granted),
\* or the normalized sum of the old score, the event's increments and at most
\* one favoriteBoost, the two increments of a quick return being normalized
\* together or one after the other.
BoostOncePerEvent ==
   [][ (EngineStepTaken
           /\ lastOp'.op \in {"onFileAccess", "onFileEdit", "onFileClose"}
           /\ lastOp'.path \in DOMAIN heatMap
           /\ heatMap[lastOp'.path].metrics.isFavorite)
       => LET p == lastOp'.path
              prev == heatMap[p].heatScore
              boost == heatMap[p].metrics.favoriteBoost
              fileOpen == Fx(settings.heatIncrements.fileOpen)
              quickReturn == Fx(settings.heatIncrements.quickReturn)
              first == IF lastOp'.op = "onFileAccess" /\ IsQuickReturn(p)
                       THEN quickReturn ELSE 0
              second ==
                 CASE lastOp'.op = "onFileAccess" -> fileOpen
                   [] lastOp'.op = "onFileEdit" ->
                         Fx(settings.heatIncrements.fileEdit)
                   [] lastOp'.op = "onFileClose" ->
                         IF heatMap[p].metrics.sessionStart = NULL THEN 0
                         ELSE DurationHeat(now - heatMap[p].metrics.sessionStart)
          IN heatMap'[p].heatScore \in
                { prev,
                  NormalizeHeat(prev + first + second),
                  NormalizeHeat(prev + first + second + boost),
                  NormalizeHeat(NormalizeHeat(prev + first) + second),
                  NormalizeHeat(NormalizeHeat(prev + first + boost) + second),
                  NormalizeHeat(NormalizeHeat(prev + first) + second + boost) }
     ]_vars

\* C32: the first onFileAccess on a path that had no record before the call
\* leaves successionCount = 0 and grants only the file-open increment, whatever
\* happened before, an earlier access to the same path followed by removeFile
\* or by a clear of the store included.
FirstAccessIsNoQuickReturn ==
   [][ (EngineStepTaken /\ lastOp'.op = "onFileAccess"
           /\ lastOp'.path \notin DOMAIN heatMap)
       => /\ heatMap'[lastOp'.path].metrics.successionCount = 0
          /\ heatMap'[lastOp'.path].heatScore
                = Fx(settings.heatIncrements.fileOpen) ]_vars

\* The debounced persistence step by step: favorites toggled on a loaded
\* store, save calls, the debounce timer, and performSave calls that wait in
\* createBackup and in saveData while other handlers run.
SaveSlots == 1..MaxSaves

InitSaveRace ==
   /\ InitHost(DefaultSettings(30, 5, 10, TRUE, TRUE))
   /\ lastAccessedFile = NoFile
   /\ heatMap = SavedStore(3)
   /\ rawA = 0 /\ rawB = 0 /\ outA = NULL /\ outB = NULL

NextSaveRace ==
   \/ \E p \in Paths : ToggleFileFavorite(p)
   \/ SaveImmediate
   \/ ForceSave
   \/ \E i \in SaveSlots : SaveTimerFire(i)
   \/ \E i \in SaveSlots : BackupDone(i)
   \/ \E i \in SaveSlots, fails \in BOOLEAN : WriteDone(i, fails)

SpecSaveRace == InitSaveRace /\ [][NextSaveRace]_vars

\* C33: a mutation of the store that was followed by a save call is not left
\* unsaved: whenever the store is not dirty, the data file holds a store that
\* was handed to saveData after the last such mutation; isDirty is never
\* cleared by a write that started before the mutation.
CleanMeansWritten == ~isDirty => disk.mutations = mutations

\* Snapshots taken between usage events, favorite changes, resets and decay
\* ticks, none of which replaces a record object of the store.
InitSnapshots ==
   /\ InitPlugin(DefaultSettings(1, 5, 10, FALSE, TRUE))
   /\ rawA = 0 /\ rawB = 0 /\ outA = NULL /\ outB = NULL

NextSnapshots ==
   \/ \E p \in Paths : OnFileAccess(p)
   \/ \E p \in Paths : SetFavorite(p, TRUE)
   \/ \E p \in Paths : ResetFileHeat(p)
   \/ Advance(MaxMinutes)
   \/ \E id \in 1..MaxTimers : TimerFire(id)
   \/ CreateSnapshot

SpecSnapshots == InitSnapshots /\ [][NextSnapshots]_vars

\* C34: a snapshot is immutable once taken: the heatScore and metrics it
\* recorded for a file are what it holds for that file ever after, whatever
\* usage events, setFavorite, resets and decay ticks do to the live store.
SnapshotKeepsRecorded ==
   \A i \in 1..Len(snapshots) :
      SnapshotData(snapshots[i], heatMap) = snapshots[i].recorded

\* Snapshot viewing on a loaded store: snapshots are loaded one after the
\* other and the current state is restored, with edits and decay ticks before,
\* between and after.
InitViewing ==
   /\ InitHost(DefaultSettings(1, 5, 50, FALSE, TRUE))
   /\ lastAccessedFile = NoFile
   /\ heatMap = SavedStore(3)
   /\ rawA = 0 /\ rawB = 0 /\ outA = NULL /\ outB = NULL

NextViewing ==
   \/ \E p \in Paths : OnFileEdit(p)
   \/ Advance(MaxMinutes)
   \/ \E id \in 1..MaxTimers : TimerFire(id)
   \/ \E i \in SavedIds : LoadSnapshot(SavedStore(i))
   \/ RestoreCurrentState
   \/ RestoreWithoutBackup
   \/ \E p \in Paths : BulkSet(p)
   \/ BulkEnd

SpecViewing == InitViewing /\ [][NextViewing]_vars

\* C35: snapshot viewing round-trips.  Over the steps of loadSnapshot and
\* restoreCurrentState: the first loadSnapshot backs up the store as it is,
\* every later step of viewing keeps that backup, and restoreCurrentState ends
\* with exactly the store backed up and no backup held; so one or more
\* loadSnapshot calls followed by restoreCurrentState, with nothing else in
\* between, give back the store from before the first loadSnapshot.
\* restoreCurrentState while no backup is held changes nothing.
ViewingRoundTrips ==
   /\ [][bulk' # bulk =>
           /\ (~currentStateBackup.present /\ currentStateBackup'.present)
                 => currentStateBackup'.data = heatMap
           /\ (currentStateBackup.present /\ currentStateBackup'.present)
                 => currentStateBackup' = currentStateBackup
           /\ (currentStateBackup.present /\ ~currentStateBackup'.present)
                 => /\ bulk.kind = "restoreCurrentState"
                    /\ heatMap' = currentStateBackup.data
           /\ (bulk'.phase = "loading" /\ bulk'.kind = "restoreCurrentState")
                 => bulk'.incoming = currentStateBackup.data]_vars
   /\ [][(~currentStateBackup.present /\ lastOp'.op = "restoreCurrentState")
            => UNCHANGED <<heatMap, lastAccessedFile, currentStateBackup, bulk>>]_vars

\* Two snapshots were looked at, one after the other, and the current state
\* restored: the store is the one from before again.
RestoredAfterTwoSnapshots ==
   /\ lastOp.op = "restoreCurrentState"
   /\ bulk.phase = "idle"
   /\ ops = 3
   /\ cyclesApplied = 0
   /\ ~currentStateBackup.present
   /\ heatMap = SavedStore(3)

\* The records of a loaded store under the store's own operations: files are
\* opened and edited, renamed, removed and imported one by one, and the
\* scheduler ticks.
RecordPaths == {"a", "b", "c"}

InitRecords ==
   /\ InitHost(DefaultSettings(1, 5, 50, FALSE, TRUE))
   /\ lastAccessedFile = NoFile
   /\ \E i \in SavedIds : heatMap = SavedStore(i)
   /\ rawA = 0 /\ rawB = 0 /\ outA = NULL /\ outB = NULL

NextRecords ==
   \/ \E p \in RecordPaths : OnFileAccess(p)
   \/ \E p \in RecordPaths : OnFileEdit(p)
   \/ \E o \in RecordPaths, n \in RecordPaths : RenameFile(o, n)
   \/ \E p \in RecordPaths : RemoveFile(p)
   \/ \E p \in RecordPaths, q \in Paths : ImportRecord(p, SavedStore(3)[q])
   \/ Advance(MaxMinutes)
   \/ \E id \in 1..MaxTimers : TimerFire(id)

SpecRecords == InitRecords /\ [][NextRecords]_vars

\* What renameFile(oldPath, newPath) does to the store.
RenameEffect(before, after, oldPath, newPath) ==
   IF oldPath \notin DOMAIN before \/ oldPath = newPath
   THEN after = before
   ELSE /\ DOMAIN after = (DOMAIN before \ {oldPath}) \cup {newPath}
        /\ after[newPath].path = newPath
        /\ after[newPath].heatScore = before[oldPath].heatScore
        /\ after[newPath].metrics = before[oldPath].metrics
        /\ after[newPath].firstTracked = before[oldPath].firstTracked
        /\ after[newPath].lastUpdated = before[oldPath].lastUpdated
        /\ \A k \in DOMAIN before \ {oldPath, newPath} : after[k] = before[k]

\* C36: renameFile(oldPath, newPath) with oldPath tracked leaves oldPath
\* untracked and newPath mapped to the record formerly at oldPath, with the
\* same heatScore and metrics and path = newPath, replacing any record at
\* newPath and leaving every other record unchanged; with oldPath untracked,
\* or with oldPath = newPath, the store is unchanged.
RenameMovesRecord ==
   [][\A o \in RecordPaths, n \in RecordPaths :
         RenameFile(o, n) => RenameEffect(heatMap, heatMap', o, n)]_vars

\* The edited file a was renamed to b, which was tracked, beside a third file.
RenamedOntoTracked ==
   /\ lastOp = Op("renameFile", "a", 0)
   /\ DOMAIN heatMap = {"b", "c"}
   /\ heatMap["b"].path = "b"
   /\ heatMap["b"].metrics.editCount = 1
   /\ heatMap["b"].metrics.accessCount = 0

\* C37: in every state reached through lazy creation, renameFile, removeFile,
\* importHeatData, usage events and decay ticks, every key of the store maps
\* to a record whose path field is that key, and no two keys map to the same
\* record.
KeyIsPath ==
   /\ \A k \in DOMAIN heatMap : heatMap[k].path = k
   /\ \A k1 \in DOMAIN heatMap, k2 \in DOMAIN heatMap :
         k1 # k2 => heatMap[k1] # heatMap[k2]

\* The record of the edited file a was imported under the key c, beside a.
ImportedUnderOtherKey ==
   /\ lastOp = Op("importHeatData", "c", 0)
   /\ {"a", "c"} \subseteq DOMAIN heatMap
   /\ heatMap["c"].metrics = heatMap["a"].metrics
   /\ heatMap["c"].metrics.editCount = 1

\* Decay ticks on a store with hot, reset and favorite files, with and without
\* the pause of decay for favorites.
InitDecayFrame ==
   /\ \E pause \in BOOLEAN : InitPlugin(DefaultSettings(1, 5, 10, pause, TRUE))
   /\ rawA = 0 /\ rawB = 0 /\ outA = NULL /\ outB = NULL

NextDecayFrame ==
   \/ \E p \in Paths : OnFileAccess(p)
   \/ \E p \in Paths : SetFavorite(p, TRUE)
   \/ \E p \in Paths : ResetFileHeat(p)
   \/ Advance(MaxSchedMinutes)
   \/ \E id \in 1..MaxTimers : TimerFire(id)

SpecDecayFrame == InitDecayFrame /\ [][NextDecayFrame]_vars

\* What a decay tick may change of the store.
DecayFrame(before, after) ==
   /\ DOMAIN after = DOMAIN before
   /\ \A k \in DOMAIN before :
         /\ after[k].path = before[k].path
         /\ after[k].metrics = before[k].metrics
         /\ after[k].firstTracked = before[k].firstTracked
         /\ (before[k].heatScore = 0
               \/ (before[k].metrics.isFavorite /\ settings.pauseDecayForFavorites))
            => after[k] = before[k]

\* C38: a decay tick changes nothing but heatScore and lastUpdated of the
\* records it decays: it adds and removes no record, changes no metric, and
\* leaves records with heatScore 0 and paused favorites entirely unchanged.
DecayTickFrame ==
   [][\A id \in 1..MaxTimers :
         TimerFire(id) => /\ DecayFrame(heatMap, heatMap')
                          /\ lastAccessedFile' = lastAccessedFile]_vars

\* A tick decayed one file beside a file that had been reset to heat 0.
TickBesideColdRecord ==
   /\ lastOp.op = "performDecay"
   /\ now > 0
   /\ \E p \in DOMAIN heatMap, q \in DOMAIN heatMap :
         /\ heatMap[p].heatScore > 0
         /\ heatMap[p].lastUpdated = now
         /\ heatMap[q].heatScore = 0
         /\ heatMap[q].lastUpdated < now

\* The hottest files asked for between the opens and edits of three files.
InitHottest ==
   /\ InitPlugin(DefaultSettings(30, 5, 50, FALSE, TRUE))
   /\ rawA = 0 /\ rawB = 0 /\ outA = NULL /\ outB = NULL

NextHottest ==
   \/ \E p \in RecordPaths : OnFileAccess(p)
   \/ \E p \in RecordPaths : OnFileEdit(p)
   \/ \E n \in 0..MaxLimit : GetHottest(n)

SpecHottest == InitHottest /\ [][NextHottest]_vars

\* files are the n hottest records of the store hm, hottest first.
IsHottest(files, hm, n) ==
   /\ Len(files) = Min(n, Cardinality(DOMAIN hm))
   /\ \A i \in 1..Len(files) :
         /\ files[i].path \in DOMAIN hm
         /\ files[i] = hm[files[i].path]
   /\ \A i \in 1..Len(files), j \in 1..Len(files) :
         i < j => /\ files[i].path # files[j].path
                  /\ files[i].heatScore >= files[j].heatScore
   /\ \A i \in 1..Len(files), k \in DOMAIN hm :
         (\A j \in 1..Len(files) : files[j].path # k)
            => files[i].heatScore >= hm[k].heatScore

\* C39: getHottestFiles(n) returns, for every n >= 0 (n = 0 included),
\* exactly min(n, number of records) records in order of non-increasing
\* heatScore, each with a score at least that of every record not returned,
\* and does not modify the store.
HottestReturnsTopN ==
   [][\A n \in 0..MaxLimit :
         GetHottest(n) => /\ IsHottest(hottest'.files, heatMap, n)
                          /\ heatMap' = heatMap]_vars

\* Import files merged into, or added to, a store that opens and edits built.
Strategies == {"merge", "skip"}

InitImport ==
   /\ InitPlugin(DefaultSettings(30, 5, 50, FALSE, TRUE))
   /\ rawA = 0 /\ rawB = 0 /\ outA = NULL /\ outB = NULL

NextImport ==
   \/ \E p \in Paths : OnFileAccess(p)
   \/ \E p \in Paths : OnFileEdit(p)
   \/ \E strategy \in Strategies, i \in SavedIds :
         ApplyImport(strategy, SavedStore(i))

SpecImport == InitImport /\ [][NextImport]_vars

\* What an import of files with a strategy makes of the store before.
ImportEffect(before, after, files, strategy, stats) ==
   /\ DOMAIN after = DOMAIN before \cup DOMAIN files
   /\ \A p \in DOMAIN before \cap DOMAIN files :
         IF strategy = "merge"
         THEN /\ after[p].heatScore = Max(before[p].heatScore, files[p].heatScore)
              /\ after[p].heatScore >= before[p].heatScore
              /\ after[p] \in {before[p], [files[p] EXCEPT !.path = p]}
         ELSE after[p] = before[p]
   /\ \A p \in DOMAIN files \ DOMAIN before : after[p] = [files[p] EXCEPT !.path = p]
   /\ \A p \in DOMAIN before \ DOMAIN files : after[p] = before[p]
   /\ stats.imported + stats.updated + stats.skipped = Cardinality(DOMAIN files)
   /\ stats.imported = Cardinality(DOMAIN files \ DOMAIN before)

====
